---- MODULE Spec2Model ----
(***************************************************************************)
(* Model of the ingest pipeline job engine of Graphwise:                   *)
(*   - api_gateway ingest_zip: creates the job row, stores the upload and  *)
(*     enqueues the pipeline task;                                         *)
(*   - workers/job_runner.py run_pipeline_job: claim, the four pipeline    *)
(*     steps, the completion transaction, the failure handler and the      *)
(*     broker retry.                                                       *)
(* Every `with SessionLocal.begin()` block of run_pipeline_job selects the *)
(* job row FOR UPDATE and commits at its end, so each block is one atomic  *)
(* action on the job record; the blocks of different task executions       *)
(* interleave.                                                             *)
(***************************************************************************)
EXTENDS Integers, Sequences, FiniteSets, TLC

\* ------------------------------------------------------------------ bounds
\* number of worker processes consuming the task queue
NumWorkers == 2
\* number of times the broker hands out a task message a second time
MaxRedeliveries == 2

\* largest number of attempts an embedding client is configured with
MaxClientRetries == 7

\* MAX_FILES = int(env, default "20000"), here a deployment with a small
\* limit
MAX_FILES == 2
\* number of calls of _ingest_zip for the repository
MaxRuns == 3
\* number of times the worker process dies inside _ingest_zip
MaxCrashes == 1

\* number of syntax nodes (definitions, imports, calls) in the source
\* files of a repository
MaxSyntaxNodes == 3
\* number of files in a repository whose files hold no such node
MaxRepoFiles == 3

\* number of hits the two searches of a retrieve return between them,
\* and of hits of the fallback search
MaxHits == 4
\* largest top_k of a request
MaxTopK == 2
\* number of snippets in the retrieval pack of a request to /answer
MaxPackSnippets == 3
\* number of citations in an answer of the chat provider
MaxCitations == 2
\* MAX_CONTEXT_SNIPPETS = int(env, default "8"), here a deployment with a
\* small context
MAX_CONTEXT_SNIPPETS == 2
\* number of words in a generated query
MaxQueryWords == 4

\* --------------------------------------------------------------- constants
MAX_ATTEMPTS == 3
MB == 1024 * 1024
MAX_ZIP_MB == 50
MAX_TOTAL_UNZIPPED_MB == 500
\* PIPELINE_EMBED_MAX_RETRIES = max(1, int(env, default "10")), here a
\* deployment that configures a small budget
PIPELINE_EMBED_MAX_RETRIES == 3
TRANSIENT_EMBED_HTTP_STATUSES == {502, 503, 504}

Workers == 1..NumWorkers
\* request.retries of a task message: one more on every accepted retry
TaskRetries == 0..MAX_ATTEMPTS
\* max_retries of the bound task is set by the Celery application, which is
\* configuration: 3 is Celery's default, 0 and 1 are deployments with a
\* smaller limit
BrokerMaxRetries == {0, 1, 3}

\* Python None in a text column
None == "None"

STEPS == <<"INGEST", "PARSE", "LOAD_GRAPH", "EMBED">>

\* answers of graph_service: an HTTP status, or 0 for URLError / timeout
LoadResponses == {200, 500, 0}
EmbedResponses == {200, 401, 429, 500, 503, 0}

Max(a, b) == IF a >= b THEN a ELSE b

VARIABLES
    job,        \* the row of the jobs table
    gw,         \* position of the ingest_zip request handler
    upload,     \* uploads/<repo_id>.zip exists
    archive,    \* what the uploaded archive holds
    repo_dir,   \* repos/<repo_id> exists
    facts,      \* artifacts/<repo_id>/graph_facts.json exists
    queue,      \* task messages in the broker, by request.retries
    redelivered,\* redeliveries made by the broker so far
    max_retries,\* max_retries of the Celery task, fixed by the deployment
    wk,         \* per worker: the task execution it is in
    last_ret,   \* what the task execution that ended last returned
    cl,         \* a call of an embedding retry loop, run on its own
    zip_file,   \* uploads/<repo_id>.zip as _ingest_zip finds it
    disk,       \* repos/<repo_id>, repos/.<repo_id>.tmp and the rest of the disk
    ing,        \* the calls of _ingest_zip for one repository, run on their own
    repo,       \* repos/<repo_id> as build_graph_facts finds it
    pg,         \* the calls of build_graph_facts for one repository, run on their own
    rt,         \* a call of retrieve, run on its own
    an,         \* a request to /answer of llm_service, run on its own
    sq          \* a generated query and what the sanitizer makes of it

\* the variables of the job engine, and those of the functions that are
\* run on their own
engineVars == <<job, gw, upload, archive, repo_dir, facts, queue, redelivered, max_retries, wk, last_ret>>
clientVars == <<cl>>
ingestVars == <<zip_file, disk, ing>>
parseVars == <<repo, pg>>
retrieveVars == <<rt>>
answerVars == <<an>>
sanitizeVars == <<sq>>
unitVars == <<clientVars, ingestVars, parseVars, retrieveVars, answerVars, sanitizeVars>>
vars == <<engineVars, unitVars>>

NoExc == [cls |-> "none", msg |-> None]

\* a worker that is not executing a task; attempt is the number of
\* requests of the EMBED step under way that failed and were followed by
\* a sleep, answers is what the requests of the EMBED step of the
\* execution were answered: "none" (no request yet), "only503" (503 every
\* time), "first200" (one request, answered 200), "only503_then_200",
\* "first401" (one request, answered 401) or "other"
IdleWorker ==
    [pc |-> "idle", exc |-> NoExc, done |-> <<>>, retries |-> 0,
     attempt |-> 0, claimed |-> 0, answers |-> "none"]

\* --------------------------------------------------- job record operations

\* api_gateway _create_pipeline_job
NewJob ==
    [exists |-> TRUE, status |-> "queued", progress |-> 0,
     current_step |-> "INGEST", attempts |-> 0, error |-> None]

NoJob ==
    [exists |-> FALSE, status |-> "queued", progress |-> 0,
     current_step |-> "INGEST", attempts |-> 0, error |-> None]

\* variant: the check for a running job is missing
ClaimResult_NoRunningCheck(j) ==
    IF j.status = "completed" THEN "completed" ELSE "claimed"

\* the early returns of the claim transaction
ClaimResult(j) ==
    IF j.status = "completed" THEN "completed"
    ELSE IF j.status = "running" THEN "running"
    ELSE "claimed"

\* variant: the claim restarts progress at 1
ClaimJob_ResetProgress(j) ==
    [j EXCEPT !.status = "running",
              !.error = None,
              !.current_step = "INGEST",
              !.progress = 1]

\* the writes of the claim transaction
ClaimJob(j) ==
    [j EXCEPT !.status = "running",
              !.error = None,
              !.current_step = "INGEST",
              !.progress = Max(j.progress, 1)]

Milestone(step) ==
    CASE step = "INGEST" -> 25
      [] step = "PARSE" -> 50
      [] step = "LOAD_GRAPH" -> 75
      [] step = "EMBED" -> 90

\* variant: the step transaction forgets the milestone
StepCommit_NoMilestone(j, step) ==
    [j EXCEPT !.current_step = step]

\* the writes at the end of a step transaction
StepCommit(j, step) ==
    [j EXCEPT !.current_step = step, !.progress = Milestone(step)]

\* variant: the EMBED block is left out
NextPc_SkipEmbed(step) ==
    CASE step = "INGEST" -> "PARSE"
      [] step = "PARSE" -> "LOAD_GRAPH"
      [] step = "LOAD_GRAPH" -> "COMPLETE"
      [] step = "EMBED" -> "COMPLETE"

\* the block that follows a step transaction in run_pipeline_job
NextPc(step) ==
    CASE step = "INGEST" -> "PARSE"
      [] step = "PARSE" -> "LOAD_GRAPH"
      [] step = "LOAD_GRAPH" -> "EMBED"
      [] step = "EMBED" -> "COMPLETE"

\* variant: completion resets the attempts counter
CompleteJob_ResetAttempts(j) ==
    [j EXCEPT !.status = "completed",
              !.progress = 100,
              !.current_step = "EMBED",
              !.error = None,
              !.attempts = 0]

\* the final transaction
CompleteJob(j) ==
    [j EXCEPT !.status = "completed",
              !.progress = 100,
              !.current_step = "EMBED",
              !.error = None]

\* variant: the handler does not record the error
FailJob_NoError(j, exc) ==
    LET a == j.attempts + 1 IN
    [j EXCEPT !.attempts = a,
              !.status = IF exc.cls = "EmbedStepFailed" THEN "failed"
                         ELSE IF a >= MAX_ATTEMPTS THEN "failed"
                         ELSE "queued"]

\* variant: off by one in the comparison with MAX_ATTEMPTS
FailJob_OffByOne(j, exc) ==
    LET a == j.attempts + 1 IN
    [j EXCEPT !.attempts = a,
              !.error = exc.msg,
              !.status = IF exc.cls = "EmbedStepFailed" THEN "failed"
                         ELSE IF a > MAX_ATTEMPTS THEN "failed"
                         ELSE "queued"]

\* the failure handler's transaction
FailJob(j, exc) ==
    LET a == j.attempts + 1 IN
    [j EXCEPT !.attempts = a,
              !.error = exc.msg,
              !.status = IF exc.cls = "EmbedStepFailed" THEN "failed"
                         ELSE IF a >= MAX_ATTEMPTS THEN "failed"
                         ELSE "queued"]

\* variant: the embedding-exhaustion class is retried like any other
RetryJob_EmbedRetried(j, exc) ==
    ~(j.attempts + 1 >= MAX_ATTEMPTS)

\* retry_job as the failure handler leaves it
RetryJob(j, exc) ==
    /\ exc.cls # "EmbedStepFailed"
    /\ ~(j.attempts + 1 >= MAX_ATTEMPTS)

\* the transaction of the MaxRetriesExceededError handler
RetryRefusedJob(j, exc) ==
    [j EXCEPT !.status = "failed", !.error = exc.msg]

\* ------------------------------------------------------------ step bodies

Raise(cls, msg) == [ok |-> FALSE, exc |-> [cls |-> cls, msg |-> msg]]
Ok == [ok |-> TRUE, exc |-> NoExc]

\* the RuntimeErrors of the first pass of _safe_extract_zip
ArchiveViolations ==
    {"Unsafe ZIP member path",
     "ZIP symlink entries are not allowed",
     "ZIP size exceeds MAX_ZIP_MB",
     "ZIP contains too many files",
     "ZIP uncompressed size exceeds MAX_TOTAL_UNZIPPED_MB"}

\* what an uploaded archive holds: files that pass validation, with or
\* without a file of a supported language among them, or a member or a
\* size that _safe_extract_zip refuses with the given message
UploadedArchives == {"sources", "no_sources"} \cup ArchiveViolations

\* _run_ingest / _ingest_zip: outcome and whether repos/<repo_id> exists after
RunIngest(repoExists, uploadExists, arch) ==
    IF repoExists THEN [res |-> Ok, repo |-> TRUE]
    ELSE IF ~uploadExists
         THEN [res |-> Raise("RuntimeError", "ZIP upload not found"), repo |-> FALSE]
    ELSE IF arch \in ArchiveViolations
         THEN [res |-> Raise("RuntimeError", arch), repo |-> FALSE]
    ELSE [res |-> Ok, repo |-> TRUE]

\* _run_parse: writeOk is whether the artifact could be written
RunParse(repoExists, writeOk) ==
    IF ~repoExists THEN Raise("RuntimeError", "Cannot parse missing repo directory")
    ELSE IF ~writeOk THEN Raise("OSError", "cannot write graph_facts.json")
    ELSE Ok

\* _run_load_graph
RunLoadGraph(factsExist, resp) ==
    IF ~factsExist THEN Raise("RuntimeError", "Missing graph facts file")
    ELSE IF resp = 0 THEN Raise("RuntimeError", "graph_service unreachable")
    ELSE IF resp >= 400 THEN Raise("RuntimeError", "graph_service load failed")
    ELSE Ok

\* variant: every HTTP error answer is taken as transient
EmbedAttempt_RetryAnyStatus(resp, attempt) ==
    IF resp # 0 /\ resp < 400 THEN "return"
    ELSE IF attempt < PIPELINE_EMBED_MAX_RETRIES THEN "sleep"
    ELSE "exhausted"

\* one iteration of the loop of _run_embed: the request of attempt
\* `attempt` is answered by resp
EmbedAttempt(resp, attempt) ==
    IF resp # 0 /\ resp < 400 THEN "return"
    ELSE IF resp # 0 /\ resp \notin TRANSIENT_EMBED_HTTP_STATUSES THEN "raise"
    ELSE IF attempt < PIPELINE_EMBED_MAX_RETRIES THEN "sleep"
    ELSE "exhausted"

EmbedResult(outcome) ==
    CASE outcome = "return" -> Ok
      [] outcome = "raise" ->
            Raise("EmbedStepFailed",
                  "embed step failed with non-retryable upstream response")
      [] outcome = "exhausted" ->
            Raise("EmbedStepFailed", "embed step failed after retries")

\* ------------------------------------------------ embedding retry loops
\* The three loops that send an embeddings request until it succeeds:
\* openai_utils.embed, retrieval_service _openai_embed and the worker's
\* _run_embed.  Times are in half seconds, so that the default base of
\* 0.5 s is 1.

EmbedLoops == {"embed", "_openai_embed", "_run_embed"}

\* what a request meets: an HTTP status and the kind of body, status 0 for
\* URLError / TimeoutError / socket.timeout
ClientResponses ==
    {[status |-> 200, body |-> "json"],
     [status |-> 200, body |-> "malformed"],
     [status |-> 0, body |-> "none"]}
    \cup {[status |-> s, body |-> "error"] : s \in {401, 404, 429, 500, 503}}

NoResponse == [status |-> 0, body |-> "unsent"]

RETRYABLE_STATUS_CODES == {429, 500, 502, 503, 504}
OPENAI_EMBED_RETRYABLE_STATUS_CODES == {429, 500, 502, 503, 504}

Min(a, b) == IF a <= b THEN a ELSE b

\* the exception a loop ends with: its class, the status_code of an
\* HTTPException (0 for EmbedStepFailed), the text of the message without
\* its arguments, and the arguments: attempts and last upstream status
\* (0 where the message has none)
Failure(cls, code, detail, attempts, status) ==
    [cls |-> cls, code |-> code, detail |-> detail,
     attempts |-> attempts, last_status |-> status]

NoFailure == Failure("none", 0, None, 0, 0)

Retry == [kind |-> "sleep", err |-> NoFailure]
Break == [kind |-> "break", err |-> NoFailure]
Throw(err) == [kind |-> "raise", err |-> err]

\* one iteration of the while loop of openai_utils.embed: request number
\* `attempt` is answered by resp
EmbedIteration(resp, attempt, n) ==
    IF resp.status >= 400 THEN
        IF resp.status = 401
        THEN Throw(Failure("HTTPException", 401,
                   "OpenAI embedding unauthorized (invalid API key)", 0, 0))
        ELSE IF 400 <= resp.status /\ resp.status < 500 /\ resp.status # 429
        THEN Throw(Failure("HTTPException", 502,
                   "OpenAI embedding rejected (non-retryable)", 0, resp.status))
        ELSE IF resp.status \notin RETRYABLE_STATUS_CODES \/ attempt >= n
        THEN Throw(Failure("HTTPException", 502,
                   "OpenAI embedding failed after attempt(s)", attempt, resp.status))
        ELSE Retry
    ELSE IF resp.status = 0 THEN
        IF attempt >= n
        THEN Throw(Failure("HTTPException", 502,
                   "OpenAI embedding unavailable after attempt(s)", attempt, 0))
        ELSE Retry
    ELSE IF resp.body = "malformed" THEN
        IF attempt >= n
        THEN Throw(Failure("HTTPException", 502,
                   "OpenAI embedding returned invalid JSON after attempt(s)", attempt, 0))
        ELSE Retry
    ELSE Break

\* one iteration of the for loop of retrieval_service _openai_embed
OpenaiEmbedIteration(resp, attempt, n) ==
    IF resp.status >= 400 THEN
        IF resp.status = 401
        THEN Throw(Failure("HTTPException", 401,
                   "OpenAI embedding unauthorized (invalid_api_key)", 0, 0))
        ELSE IF 400 <= resp.status /\ resp.status < 500 /\ resp.status # 429
        THEN Throw(Failure("HTTPException", 502,
                   "OpenAI embedding request rejected with non-retryable client error",
                   0, resp.status))
        ELSE IF resp.status \notin OPENAI_EMBED_RETRYABLE_STATUS_CODES \/ attempt >= n
        THEN Throw(Failure("HTTPException", 502,
                   "OpenAI embedding failed after attempt(s)", attempt, resp.status))
        ELSE Retry
    ELSE IF resp.status = 0 THEN
        IF attempt >= n
        THEN Throw(Failure("HTTPException", 502,
                   "OpenAI embedding unavailable after attempt(s)", attempt, 0))
        ELSE Retry
    ELSE IF resp.body = "malformed" THEN
        Throw(Failure("HTTPException", 502,
              "OpenAI embedding returned invalid JSON", 0, 0))
    ELSE Break

\* one iteration of the for loop of _run_embed, with the exception it
\* raises; the body of a 2xx answer is not parsed
RunEmbedIteration(resp, attempt) ==
    LET outcome == EmbedAttempt(resp.status, attempt) IN
    CASE outcome = "return" -> Break
      [] outcome = "sleep" -> Retry
      [] outcome = "raise" ->
            Throw(Failure("EmbedStepFailed", 0, EmbedResult(outcome).exc.msg,
                          attempt, resp.status))
      [] outcome = "exhausted" ->
            Throw(Failure("EmbedStepFailed", 0, EmbedResult(outcome).exc.msg,
                          PIPELINE_EMBED_MAX_RETRIES, resp.status))

\* variant: the exponential bound is not capped
BackoffCap_Uncapped(base, cap, attempt) == base * 2 ^ (attempt - 1)

\* min(cap, base * 2 ** (attempt - 1))
BackoffCap(base, cap, attempt) == Min(cap, base * 2 ^ (attempt - 1))

\* the values random.uniform can return for the sleep after attempt
\* `attempt`; embed passes the cap as it is, the other two pass
\* max(0.0, cap)
SleepChoices(impl, base, cap, attempt) ==
    IF impl = "embed" THEN 0..BackoffCap(base, cap, attempt)
    ELSE 0..Max(0, BackoffCap(base, cap, attempt))

\* a call before its first request; capped is the bound of the latest
\* sleep, sleep_sec its length and slept the number of sleeps
NewCall(impl, n, base, cap) ==
    [impl |-> impl, max_retries |-> n, backoff_base |-> base,
     backoff_cap |-> cap, pc |-> "loop", attempt |-> 0, resp |-> NoResponse,
     capped |-> 0, sleep_sec |-> 0, slept |-> 0, err |-> NoFailure]

NoCall == [NewCall("none", 0, 0, 0) EXCEPT !.pc = "none"]

\* the calls the services make: embed with the defaults of its backoff
\* parameters (0.5 s, 10 s) and any max_retries, _openai_embed with
\* OPENAI_EMBED_MAX_RETRIES = max(1, ...) and the defaults 0.5 s and 10 s,
\* _run_embed with the worker's budget and the defaults 1 s and 30 s
ClientCalls ==
    {NewCall("embed", n, 1, 20) : n \in 0..MaxClientRetries}
    \cup {NewCall("_openai_embed", n, 1, 20) : n \in 1..MaxClientRetries}
    \cup {NewCall("_run_embed", PIPELINE_EMBED_MAX_RETRIES, 2, 60)}

\* ------------------------------------------------------ archive extraction
\* _safe_extract_zip and _ingest_zip.  A member name is the sequence of
\* its path components; tmp and repo hold the indices of the members that
\* were materialized under them, outside those of the members written to
\* a place outside the extraction directory.

\* member names: a plain file, a path that goes down and up again, a path
\* that leaves the directory
MemberNames == {<<"f">>, <<"d", "..", "f">>, <<"..", "f">>}

\* file_size of the members: empty, one byte, and sizes at the limit
MemberSizes ==
    {0, 1, MAX_TOTAL_UNZIPPED_MB * MB - 1, MAX_TOTAL_UNZIPPED_MB * MB}

\* the entries of infolist(): regular files, a file under a path with
\* "..", a file that leaves the directory, a symbolic link and a directory
Members ==
    {[name |-> <<"f">>, kind |-> "file", file_size |-> z] : z \in MemberSizes}
    \cup {[name |-> <<"d", "..", "f">>, kind |-> "file", file_size |-> 1],
          [name |-> <<"..", "f">>, kind |-> "file", file_size |-> 1],
          [name |-> <<"f">>, kind |-> "symlink", file_size |-> 1],
          [name |-> <<"d">>, kind |-> "dir", file_size |-> 1]}

MaxMembers == MAX_FILES + 1

\* the archives up to MaxMembers members
RECURSIVE MemberLists(_)
MemberLists(n) ==
    IF n = 0 THEN {<<>>}
    ELSE MemberLists(n - 1)
         \cup {Append(l, m) : l \in {x \in MemberLists(n - 1) : Len(x) = n - 1},
                              m \in Members}

\* zip_file.stat().st_size: at the limit and one byte above
ZipSizes == {MAX_ZIP_MB * MB, MAX_ZIP_MB * MB + 1}

NoZip == [exists |-> FALSE, size |-> 0, infos |-> <<>>]

Uploads ==
    {NoZip}
    \cup {[exists |-> TRUE, size |-> z, infos |-> l] :
            z \in ZipSizes, l \in MemberLists(MaxMembers)}

\* depth below the extraction directory at which (extract_dir /
\* member_name).resolve() ends, -1 once the path has left the directory
RECURSIVE ResolveDepth(_, _, _)
ResolveDepth(name, i, depth) ==
    IF depth < 0 THEN -1
    ELSE IF i > Len(name) THEN depth
    ELSE IF name[i] = ".." THEN ResolveDepth(name, i + 1, depth - 1)
    ELSE ResolveDepth(name, i + 1, depth + 1)

\* _is_within_directory(destination, root)
IsWithinDirectory(name) == ResolveDepth(name, 1, 0) >= 0

\* variant: the test for symbolic links is missing
MemberVerdict_NoSymlinkTest(info) ==
    IF ~IsWithinDirectory(info.name) THEN "Unsafe ZIP member path"
    ELSE "ok"

\* the tests every member goes through in the first loop of
\* _safe_extract_zip: "ok" or the message of the RuntimeError
MemberVerdict(info) ==
    IF ~IsWithinDirectory(info.name) THEN "Unsafe ZIP member path"
    ELSE IF info.kind = "symlink" THEN "ZIP symlink entries are not allowed"
    ELSE "ok"

\* the first loop of _safe_extract_zip from member i on: "ok" or the
\* message of the RuntimeError
RECURSIVE CheckMembers(_, _, _, _)
CheckMembers(infos, i, file_count, total_unzipped_bytes) ==
    IF i > Len(infos) THEN "ok"
    ELSE IF MemberVerdict(infos[i]) # "ok" THEN MemberVerdict(infos[i])
    ELSE IF infos[i].kind = "dir"
    THEN CheckMembers(infos, i + 1, file_count, total_unzipped_bytes)
    ELSE IF file_count + 1 > MAX_FILES THEN "ZIP contains too many files"
    ELSE IF total_unzipped_bytes + infos[i].file_size > MAX_TOTAL_UNZIPPED_MB * MB
    THEN "ZIP uncompressed size exceeds MAX_TOTAL_UNZIPPED_MB"
    ELSE CheckMembers(infos, i + 1, file_count + 1,
                      total_unzipped_bytes + infos[i].file_size)

\* variant: the size of the archive is not looked at
ValidateZip_NoSizeTest(zip) == CheckMembers(zip.infos, 1, 0, 0)

\* _safe_extract_zip up to the end of its first loop
ValidateZip(zip) ==
    IF zip.size > MAX_ZIP_MB * MB THEN "ZIP size exceeds MAX_ZIP_MB"
    ELSE CheckMembers(zip.infos, 1, 0, 0)

NoDir == [exists |-> FALSE, members |-> {}]

EmptyDisk == [repo |-> NoDir, tmp |-> NoDir, outside |-> {}]

\* if tmp_dir.exists(): rmtree; tmp_dir.mkdir()
FreshTmp(d) == [d EXCEPT !.tmp = [exists |-> TRUE, members |-> {}]]

\* variant: the members are written under repos/<repo_id> directly
Materialize_IntoRepo(d, infos, i) ==
    IF IsWithinDirectory(infos[i].name)
    THEN [d EXCEPT !.repo = [exists |-> TRUE, members |-> d.repo.members \cup {i}]]
    ELSE [d EXCEPT !.outside = @ \cup {i}]

\* one iteration of the second loop of _safe_extract_zip: member i is
\* created where its name resolves to
Materialize(d, infos, i) ==
    IF IsWithinDirectory(infos[i].name)
    THEN [d EXCEPT !.tmp.members = @ \cup {i}]
    ELSE [d EXCEPT !.outside = @ \cup {i}]

\* tmp_dir.rename(repo_dir)
Rename(d) == [d EXCEPT !.repo = d.tmp, !.tmp = NoDir]

\* variant: the except block leaves the temporary directory behind
CleanUp_KeepTmp(d) == d

\* the except block of _ingest_zip: rmtree(tmp_dir) if it exists
CleanUp(d) == [d EXCEPT !.tmp = NoDir]

\* variant: the test for an existing repository is missing
SkipsUnzip_Never(d) == FALSE

\* if repo_dir.exists(): return
SkipsUnzip(d) == d.repo.exists

\* no call of _ingest_zip under way; i is the member the second loop is
\* at, opened counts the times the upload was read, err holds the error
\* the last call raised and skipped whether it returned at once
IdleIngest ==
    [pc |-> "idle", i |-> 0, err |-> None, skipped |-> FALSE,
     runs |-> 0, crashes |-> 0, opened |-> 0]

\* ------------------------------------------------------- facts extraction

PG_IGNORED_DIRS == {".git", "node_modules", "venv", "__pycache__", "dist", "build"}

\* str.lower() on the suffixes that occur
Lower(suffix) == IF suffix = ".PY" THEN ".py" ELSE suffix

\* _EXT_TO_LANG.get(ext), None for a suffix that is not in the table
ExtToLang(ext) ==
    CASE ext = ".py" -> "python"
      [] ext \in {".js", ".jsx"} -> "javascript"
      [] ext = ".ts" -> "typescript"
      [] ext = ".tsx" -> "tsx"
      [] ext = ".java" -> "java"
      [] ext = ".go" -> "go"
      [] ext = ".rs" -> "rust"
      [] OTHER -> None

\* a file below the repository directory: the names of the directories
\* that lead to it, its name and the suffix of its name
File(dir, name, suffix) == [dir |-> dir, name |-> name, suffix |-> suffix]

\* the files a repository directory may hold
PathCatalogue ==
    {File(<<>>, "app.py", ".py"),
     File(<<"pkg">>, "app.py", ".py"),
     File(<<"pkg", "__pycache__">>, "app.py", ".py"),
     File(<<".venv">>, "lib.py", ".py"),
     File(<<".git", "hooks">>, "hook.py", ".py"),
     File(<<>>, "README.md", ".md"),
     File(<<>>, "MAIN.PY", ".PY"),
     File(<<"pkg", "build">>, "gen.js", ".js"),
     File(<<"venv">>, "lib.py", ".py"),
     File(<<"pkg">>, "app.pyc", ".pyc")}

\* the names of files and directories, in the order of their code points
NameOrder ==
    <<".git", ".venv", "MAIN.PY", "README.md", "__pycache__", "app.py",
      "app.pyc", "build", "gen.js", "hook.py", "hooks", "lib.py", "pkg",
      "venv">>

NameRanks ==
    [name \in {NameOrder[i] : i \in 1..Len(NameOrder)} |->
        CHOOSE i \in 1..Len(NameOrder) : NameOrder[i] = name]
NameRank(name) == NameRanks[name]

\* the parts of the Path of a file
Parts(file) == Append(file.dir, file.name)

\* Path.__lt__: the parts are compared as lists of strings
RECURSIVE PartsLess(_, _, _)
PartsLess(p, q, i) ==
    IF i > Len(q) THEN FALSE
    ELSE IF i > Len(p) THEN TRUE
    ELSE IF p[i] = q[i] THEN PartsLess(p, q, i + 1)
    ELSE NameRank(p[i]) < NameRank(q[i])

PathLess(f, g) == PartsLess(Parts(f), Parts(g), 1)

\* Path.relative_to(root).as_posix()
RECURSIVE JoinPosix(_, _)
JoinPosix(parts, i) ==
    IF i = Len(parts) THEN parts[i]
    ELSE parts[i] \o "/" \o JoinPosix(parts, i + 1)

RelativePosix(file) == JoinPosix(Parts(file), 1)

\* os.walk(repo_dir, topdown=True) with the pruning of dirnames: the
\* files of a supported language that the loop of _iter_source_files
\* reaches from the directory root on
RECURSIVE WalkSource(_, _)
WalkSource(files, root) ==
    LET below == {f \in files : /\ Len(f.dir) >= Len(root)
                                /\ SubSeq(f.dir, 1, Len(root)) = root}
        filenames == {f \in below : f.dir = root}
        dirnames == {f.dir[Len(root) + 1] : f \in below \ filenames}
        kept == {name \in dirnames : name \notin PG_IGNORED_DIRS}
    IN {f \in filenames : ExtToLang(Lower(f.suffix)) # None}
         \cup UNION {WalkSource(files, Append(root, name)) : name \in kept}

\* the orders in which a walk can come upon the files of a set
Enumerations(files) ==
    {order \in [1..Cardinality(files) -> files] :
        \A i, j \in 1..Cardinality(files) : order[i] = order[j] => i = j}

\* list.sort(key=path): the files of results[i..] are put in their place
\* in sorted, after the files that are not greater (the sort is stable)
RECURSIVE SortFrom(_, _, _)
SortFrom(results, i, sorted) ==
    IF i > Len(results) THEN sorted
    ELSE LET before == {j \in 1..Len(sorted) : ~PathLess(results[i], sorted[j])}
             k == Cardinality(before)
         IN SortFrom(results, i + 1,
                     SubSeq(sorted, 1, k) \o <<results[i]>>
                        \o SubSeq(sorted, k + 1, Len(sorted)))

\* results.sort(key=lambda t: t[0])
SortResults(results) == SortFrom(results, 1, <<>>)

\* _iter_source_files for a walk that comes upon the files in the given
\* order
IterSourceFiles(order) == SortResults(order)

\* the strings that enter the digest of a node id
Tokens ==
    <<"r1", "|", "<external>", "file", "class", "function", "module",
      "f", "g", "m",
      "app.py", "pkg/app.py", "pkg/__pycache__/app.py", ".venv/lib.py",
      ".git/hooks/hook.py", "README.md", "MAIN.PY", "pkg/build/gen.js",
      "venv/lib.py", "pkg/app.pyc">>

TokenCodes ==
    [tok \in {Tokens[i] : i \in 1..Len(Tokens)} |->
        CHOOSE i \in 1..Len(Tokens) : Tokens[i] = tok]
TokenCode(tok) == TokenCodes[tok]

\* hashlib.sha256(raw).hexdigest(): the digest is taken as free of
\* collisions, a number that is different for different raw strings; the
\* order of two lower-hex digests, which have one length, is the order of
\* the numbers they write
RECURSIVE Sha256(_, _)
Sha256(raw, i) ==
    IF i > Len(raw) THEN 0
    ELSE TokenCode(raw[i]) + (Len(Tokens) + 1) * Sha256(raw, i + 1)

\* _stable_node_id
StableNodeId(repo_id, path, symbol, node_type) ==
    Sha256(<<repo_id, "|", path, "|", symbol, "|", node_type>>, 1)

\* the names defined, imported and called in the source files
SymbolNames == {"f", "g"}
ModuleNames == {"m"}

\* the nodes of the syntax tree of a file that walk() acts on, in the
\* order in which walk() visits them; parent is the position of the
\* nearest definition that encloses the node, 0 at the top of the file
DefinitionTypes == {"class_definition", "function_definition"}

SyntaxNode(type, name, parent) == [type |-> type, name |-> name, parent |-> parent]

\* the definitions that enclose the node at position j, and that node
RECURSIVE Enclosing(_, _)
Enclosing(tree, j) ==
    IF j = 0 THEN {} ELSE {j} \cup Enclosing(tree, tree[j].parent)

\* the positions that can be the parent of the node visited after tree
OpenDefinitions(tree) ==
    IF tree = <<>> THEN {0}
    ELSE LET last == Len(tree) IN
         {0} \cup Enclosing(tree, tree[last].parent)
             \cup (IF tree[last].type \in DefinitionTypes THEN {last} ELSE {})

\* the definitions and the called names that the files hold
DefinedSymbols ==
    {<<"function_definition", "f">>, <<"function_definition", "g">>,
     <<"class_definition", "g">>}
CalledNames == {"g"}

NextSyntaxNodes(tree) ==
    {SyntaxNode(def[1], def[2], parent) :
        def \in DefinedSymbols, parent \in OpenDefinitions(tree)}
    \cup {SyntaxNode("import_statement", name, parent) :
            name \in ModuleNames, parent \in OpenDefinitions(tree)}
    \cup {SyntaxNode("call", name, parent) :
            name \in CalledNames, parent \in OpenDefinitions(tree)}

\* the syntax trees of exactly n nodes
RECURSIVE SyntaxTrees(_)
SyntaxTrees(n) ==
    IF n = 0 THEN {<<>>}
    ELSE UNION {{Append(tree, node) : node \in NextSyntaxNodes(tree)} :
                    tree \in SyntaxTrees(n - 1)}

\* the text of the syntax node at position i of a file, of a whole file
\* and of no text
NodeText(i) == <<i>>
FileText == <<0>>
NoText == <<>>

GraphNode(id, type, name, path, code_snippet) ==
    [id |-> id, type |-> type, name |-> name, path |-> path,
     code_snippet |-> code_snippet]

Ids(nodes) == {nodes[i].id : i \in 1..Len(nodes)}

\* Path(rel_path).name
BaseName(file) == file.name

\* _extract_facts_treesitter up to the call of walk(root): the file node
\* and the empty table of local symbols; an id of 0 is a name that is not
\* in the table
BeginExtract(repo_id, file) ==
    LET rel_path == RelativePosix(file)
        file_node_id == StableNodeId(repo_id, rel_path, rel_path, "file")
    IN [nodes |-> <<GraphNode(file_node_id, "file", BaseName(file), rel_path, FileText)>>,
        edges |-> <<>>,
        local_symbol_ids |-> [name \in SymbolNames |-> 0]]

GraphType(type) == IF type = "class_definition" THEN "class" ELSE "function"

\* variant: no contains edge is added for a definition
WalkDefinition_NoContains(st, node, i, repo_id, rel_path, file_node_id) ==
    LET node_id == StableNodeId(repo_id, rel_path, node.name, GraphType(node.type)) IN
    IF node_id \in Ids(st.nodes) THEN st
    ELSE [nodes |-> Append(st.nodes,
                           GraphNode(node_id, GraphType(node.type), node.name,
                                     rel_path, NodeText(i))),
          edges |-> st.edges,
          local_symbol_ids |-> [st.local_symbol_ids EXCEPT ![node.name] = node_id]]

\* walk(node) for a definition node
WalkDefinition(st, node, i, repo_id, rel_path, file_node_id) ==
    LET node_id == StableNodeId(repo_id, rel_path, node.name, GraphType(node.type)) IN
    IF node_id \in Ids(st.nodes) THEN st
    ELSE [nodes |-> Append(st.nodes,
                           GraphNode(node_id, GraphType(node.type), node.name,
                                     rel_path, NodeText(i))),
          edges |-> Append(st.edges, <<file_node_id, node_id, "contains">>),
          local_symbol_ids |-> [st.local_symbol_ids EXCEPT ![node.name] = node_id]]

\* variant: the edge to the module is added without the module node
WalkImport_NoModuleNode(st, node, repo_id, file_node_id) ==
    LET module_id == StableNodeId(repo_id, "<external>", node.name, "module") IN
    [st EXCEPT !.edges = Append(@, <<file_node_id, module_id, "imports">>)]

\* walk(node) for an import node
WalkImport(st, node, repo_id, file_node_id) ==
    LET module_id == StableNodeId(repo_id, "<external>", node.name, "module") IN
    [st EXCEPT
       !.nodes = IF module_id \in Ids(st.nodes) THEN @
                 ELSE Append(@, GraphNode(module_id, "module", node.name,
                                          "<external>", NoText)),
       !.edges = Append(@, <<file_node_id, module_id, "imports">>)]

\* the loop over the ancestors of a call: the id the table holds for the
\* name of the nearest ancestor whose name is in the table, the file node
\* when there is none
RECURSIVE CallSource(_, _, _, _)
CallSource(tree, ancestor, local_symbol_ids, file_node_id) ==
    IF ancestor = 0 THEN file_node_id
    ELSE IF local_symbol_ids[tree[ancestor].name] # 0
    THEN local_symbol_ids[tree[ancestor].name]
    ELSE CallSource(tree, tree[ancestor].parent, local_symbol_ids, file_node_id)

\* walk(node) for a call node
WalkCall(st, tree, node, file_node_id) ==
    IF st.local_symbol_ids[node.name] = 0 THEN st
    ELSE LET target_id == st.local_symbol_ids[node.name]
             source_id == CallSource(tree, node.parent, st.local_symbol_ids,
                                     file_node_id)
         IN IF source_id # target_id
            THEN [st EXCEPT !.edges = Append(@, <<source_id, target_id, "calls">>)]
            ELSE st

\* walk() from the node at position i on
RECURSIVE Walk(_, _, _, _, _, _)
Walk(st, tree, i, repo_id, rel_path, file_node_id) ==
    IF i > Len(tree) THEN st
    ELSE LET node == tree[i]
             after ==
                IF node.type \in DefinitionTypes
                THEN WalkDefinition(st, node, i, repo_id, rel_path, file_node_id)
                ELSE IF node.type = "import_statement"
                THEN WalkImport(st, node, repo_id, file_node_id)
                ELSE WalkCall(st, tree, node, file_node_id)
         IN Walk(after, tree, i + 1, repo_id, rel_path, file_node_id)

\* _extract_facts_treesitter
ExtractFactsTreesitter(tree, file, repo_id) ==
    LET st == BeginExtract(repo_id, file) IN
    Walk(st, tree, 1, repo_id, RelativePosix(file), st.nodes[1].id)

\* variant: a node whose id is present is kept beside the first
SetDefault_KeepBoth(nodes_by_id, node) == Append(nodes_by_id, node)

\* nodes_by_id.setdefault(node["id"], node); the dict is the list of its
\* values in the order of insertion
SetDefault(nodes_by_id, node) ==
    IF node.id \in Ids(nodes_by_id) THEN nodes_by_id ELSE Append(nodes_by_id, node)

RECURSIVE SetDefaultAll(_, _, _)
SetDefaultAll(nodes_by_id, file_nodes, i) ==
    IF i > Len(file_nodes) THEN nodes_by_id
    ELSE SetDefaultAll(SetDefault(nodes_by_id, file_nodes[i]), file_nodes, i + 1)

Range(seq) == {seq[i] : i \in 1..Len(seq)}

\* sorted(values, key=id): the nodes of nodes[i..] are put in their place
\* in sorted, after the nodes whose id is not greater
RECURSIVE SortNodesFrom(_, _, _)
SortNodesFrom(nodes, i, sorted) ==
    IF i > Len(nodes) THEN sorted
    ELSE LET k == Cardinality({j \in 1..Len(sorted) : sorted[j].id <= nodes[i].id})
         IN SortNodesFrom(nodes, i + 1,
                          SubSeq(sorted, 1, k) \o <<nodes[i]>>
                             \o SubSeq(sorted, k + 1, Len(sorted)))

\* variant: the nodes are emitted in the order of insertion
SortNodes_InsertionOrder(nodes) == nodes

\* sorted(nodes_by_id.values(), key=lambda n: n["id"])
SortNodes(nodes) == SortNodesFrom(nodes, 1, <<>>)

\* the order of the edge types as strings
TypeRank(type) ==
    CASE type = "calls" -> 1 [] type = "contains" -> 2 [] type = "imports" -> 3

\* the order of two edge tuples
EdgeLess(e, f) ==
    \/ e[1] < f[1]
    \/ e[1] = f[1] /\ e[2] < f[2]
    \/ e[1] = f[1] /\ e[2] = f[2] /\ TypeRank(e[3]) < TypeRank(f[3])

\* sorted(edges_set)
RECURSIVE SortEdges(_)
SortEdges(edges_set) ==
    IF edges_set = {} THEN <<>>
    ELSE LET first == CHOOSE e \in edges_set : \A f \in edges_set \ {e} : EdgeLess(e, f)
         IN <<first>> \o SortEdges(edges_set \ {first})

\* the loop of build_graph_facts over the source files from files[k] on
RECURSIVE CollectFacts(_, _, _, _, _, _)
CollectFacts(trees, repo_id, files, k, nodes_by_id, edges_set) ==
    IF k > Len(files)
    THEN [nodes_by_id |-> nodes_by_id, edges_set |-> edges_set]
    ELSE LET out == ExtractFactsTreesitter(trees[files[k]], files[k], repo_id)
         IN CollectFacts(trees, repo_id, files, k + 1,
                         SetDefaultAll(nodes_by_id, out.nodes, 1),
                         edges_set \cup Range(out.edges))

\* the document build_graph_facts returns
FactsDocument(repo_id, nodes_by_id, edges_set) ==
    [repo_id |-> repo_id,
     nodes |-> SortNodes(nodes_by_id),
     edges |-> LET sorted == SortEdges(edges_set) IN
               [i \in 1..Len(sorted) |->
                  [source |-> sorted[i][1], target |-> sorted[i][2],
                   type |-> sorted[i][3]]]]

\* the two source files of the repositories whose files have contents
AppPy == File(<<>>, "app.py", ".py")
PkgAppPy == File(<<"pkg">>, "app.py", ".py")

\* repositories of two source files with up to max_nodes syntax nodes
\* between them, at most one of which is in pkg/app.py
SourceRepos(max_nodes) ==
    UNION {{(AppPy :> t1) @@ (PkgAppPy :> t2) :
                t1 \in SyntaxTrees(n[1]), t2 \in SyntaxTrees(n[2])} :
           n \in {m \in (0..max_nodes) \X (0..1) :
                     m[1] + m[2] <= max_nodes}}

\* repositories of up to max_files files of the catalogue, none of which
\* holds a definition, an import or a call
PlainRepos(max_files) ==
    {[f \in files |-> <<>>] :
        files \in {fs \in SUBSET PathCatalogue : Cardinality(fs) <= max_files}}

\* the directory repos/<repo_id>: the syntax tree of every file in it
Repos(max_nodes, max_files) == SourceRepos(max_nodes) \cup PlainRepos(max_files)
NoRepo == [f \in {} |-> <<>>]

RepoId == "r1"

NoDocument == [repo_id |-> None, nodes |-> <<>>, edges |-> <<>>]

\* the calls of build_graph_facts for the repository: which of them has
\* returned, the number of the call, the order in which its walk came
\* upon the files and whether that is another order than that of the
\* call before, the sorted list of source files and the index at which
\* the loop over them ended, the dict and the set that collected the
\* facts, the document returned last and the one the first call returned
IdleParse ==
    [pc |-> "idle", run |-> 0, order |-> <<>>, reordered |-> FALSE,
     files |-> <<>>, k |-> 0,
     nodes_by_id |-> <<>>, edges_set |-> {},
     doc |-> NoDocument, first |-> NoDocument]

\* --------------------------------------------------------------- retrieve

\* node ids that the fulltext and default searches and the vector search
\* of graph_service return; "" is a hit whose node has no id
KeywordIds == {"", "a", "b"}
SemanticIds == {"", "a", "c"}
\* scores in tenths
KeywordScores == {6, 9}
SemanticScores == {7, 8}

Hit(id, score) == [id |-> id, score |-> score]

\* the hits of a search that graph_service may answer; the score of a hit
\* without an id is never looked at
Hits(ids, scores) ==
    {Hit(id, score) : id \in ids \ {""}, score \in scores}
        \cup {Hit("", 0)}

\* the lists of up to n hits
RECURSIVE HitLists(_, _, _)
HitLists(ids, scores, n) ==
    IF n = 0 THEN {<<>>}
    ELSE LET shorter == HitLists(ids, scores, n - 1) IN
         shorter \cup {Append(hits, hit) :
                          hits \in {l \in shorter : Len(l) = n - 1},
                          hit \in Hits(ids, scores)}

\* a score that is None
NoScore == -1

\* merged.setdefault(node_id, {...}) followed by the update of the
\* keyword score; the dict is the list of its entries in the order of
\* insertion
MergeKeyword(merged, hit) ==
    IF hit.id = "" THEN merged
    ELSE IF \E i \in 1..Len(merged) : merged[i].node_id = hit.id
    THEN [i \in 1..Len(merged) |->
            IF merged[i].node_id = hit.id
               /\ (merged[i].keyword_score = NoScore \/ hit.score > merged[i].keyword_score)
            THEN [merged[i] EXCEPT !.keyword_score = hit.score]
            ELSE merged[i]]
    ELSE Append(merged, [node_id |-> hit.id, semantic_score |-> NoScore,
                         keyword_score |-> hit.score])

\* the same for the semantic score
MergeSemantic(merged, hit) ==
    IF hit.id = "" THEN merged
    ELSE IF \E i \in 1..Len(merged) : merged[i].node_id = hit.id
    THEN [i \in 1..Len(merged) |->
            IF merged[i].node_id = hit.id
               /\ (merged[i].semantic_score = NoScore \/ hit.score > merged[i].semantic_score)
            THEN [merged[i] EXCEPT !.semantic_score = hit.score]
            ELSE merged[i]]
    ELSE Append(merged, [node_id |-> hit.id, semantic_score |-> hit.score,
                         keyword_score |-> NoScore])

\* the two loops over the hits
RECURSIVE MergeAll(_, _, _, _)
MergeAll(merged, keyword_hits, semantic_hits, i) ==
    IF i <= Len(keyword_hits)
    THEN MergeAll(MergeKeyword(merged, keyword_hits[i]), keyword_hits,
                  semantic_hits, i + 1)
    ELSE IF i <= Len(keyword_hits) + Len(semantic_hits)
    THEN MergeAll(MergeSemantic(merged, semantic_hits[i - Len(keyword_hits)]),
                  keyword_hits, semantic_hits, i + 1)
    ELSE merged

\* variant: the keyword score is taken when there is one
Combined_KeywordFirst(entry) ==
    IF entry.keyword_score # NoScore THEN entry.keyword_score
    ELSE IF entry.semantic_score # NoScore THEN entry.semantic_score
    ELSE 0

\* the combined score of an entry: None counts as -inf, and -inf as 0.0
Combined(entry) ==
    IF entry.semantic_score = NoScore /\ entry.keyword_score = NoScore THEN 0
    ELSE Max(entry.semantic_score, entry.keyword_score)

RankedItem(entry) ==
    [node_id |-> entry.node_id, semantic_score |-> entry.semantic_score,
     keyword_score |-> entry.keyword_score, score |-> Combined(entry)]

\* ranked.sort(key=score, reverse=True): the sort is stable, the items of
\* items[i..] are put in their place in sorted, after the items whose
\* score is not lower
RECURSIVE SortRankedFrom(_, _, _)
SortRankedFrom(items, i, sorted) ==
    IF i > Len(items) THEN sorted
    ELSE LET k == Cardinality({j \in 1..Len(sorted) : sorted[j].score >= items[i].score})
         IN SortRankedFrom(items, i + 1,
                           SubSeq(sorted, 1, k) \o <<items[i]>>
                              \o SubSeq(sorted, k + 1, Len(sorted)))

\* ranked[:top_k]
Truncate(ranked, top_k) == SubSeq(ranked, 1, Min(top_k, Len(ranked)))

\* the ranked list of retrieve before the test for the fallback
Rank(keyword_hits, semantic_hits, top_k) ==
    LET merged == MergeAll(<<>>, keyword_hits, semantic_hits, 1)
        ranked == [i \in 1..Len(merged) |-> RankedItem(merged[i])]
    IN Truncate(SortRankedFrom(ranked, 1, <<>>), top_k)

\* variant: the fallback is asked in every case
NeedsFallback_Always(ranked) == TRUE

\* if not ranked
NeedsFallback(ranked) == ranked = <<>>

\* the items appended for the hits of the fallback search
RECURSIVE FallbackItems(_, _)
FallbackItems(fallback_hits, i) ==
    IF i > Len(fallback_hits) THEN <<>>
    ELSE (IF fallback_hits[i].id = "" THEN <<>>
          ELSE <<[node_id |-> fallback_hits[i].id, semantic_score |-> NoScore,
                  keyword_score |-> fallback_hits[i].score,
                  score |-> fallback_hits[i].score]>>)
            \o FallbackItems(fallback_hits, i + 1)

\* the ranked list after the fallback search
RankFallback(ranked, fallback_hits, top_k) ==
    Truncate(SortRankedFrom(ranked \o FallbackItems(fallback_hits, 1), 1, <<>>), top_k)

\* a call of retrieve: its position, top_k, the hits of the two searches,
\* how the semantic search went, the ranked list, whether the fallback
\* search was called and the snippets of the pack returned
NewRetrieve(top_k) ==
    [pc |-> "start", top_k |-> top_k, keyword_hits |-> <<>>,
     semantic_hits |-> <<>>, semantic |-> "none", ranked |-> <<>>,
     fallback_called |-> FALSE, snippets |-> <<>>]

NoRetrieve == [NewRetrieve(0) EXCEPT !.pc = "none"]

\* ----------------------------------------------------------------- answer

\* the lists of up to n elements of a set
RECURSIVE Lists(_, _)
Lists(S, n) ==
    IF n = 0 THEN {<<>>}
    ELSE LET shorter == Lists(S, n - 1) IN
         shorter \cup {Append(l, x) : l \in {m \in shorter : Len(m) = n - 1}, x \in S}

\* str.strip() and str.lower() of the strings that occur as ids and as
\* pieces of text
StrStrip(s) ==
    CASE s \in {" B", " B "} -> "B"
      [] s = " " -> ""
      [] OTHER -> s
StrLower(s) ==
    CASE s = "B" -> "b"
      [] s = "I'M UNSURE" -> "i'm unsure"
      [] s = "Cannot determine" -> "cannot determine"
      [] OTHER -> s

\* the snippets of a retrieval pack: an id, which is a digest, with
\* blanks around it or in upper case in some, and a score
PackSnippet(id, score) == [id |-> id, score |-> score]
PackSnippets ==
    {PackSnippet("a", 2), PackSnippet("b", 1), PackSnippet(" B", 2), PackSnippet("", 1)}

\* the retrieval packs of a request: the snippets and whether there are
\* graph nodes
RetrievalPacks(n) ==
    [snippets : Lists(PackSnippets, n), has_nodes : BOOLEAN]

\* the loop of _sorted_snippets over raw[i..]
RECURSIVE Normalized(_, _)
Normalized(raw, i) ==
    IF i > Len(raw) THEN <<>>
    ELSE (IF StrStrip(raw[i].id) = "" THEN <<>>
          ELSE <<PackSnippet(StrStrip(raw[i].id), raw[i].score)>>)
            \o Normalized(raw, i + 1)

\* _sorted_snippets
SortedSnippets(retrieval_pack) ==
    SortRankedFrom(Normalized(retrieval_pack.snippets, 1), 1, <<>>)

\* seq[:n]
Take(seq, n) == SubSeq(seq, 1, Min(n, Len(seq)))

SnippetIdsOf(snippets) == [i \in 1..Len(snippets) |-> snippets[i].id]

\* texts are lists of pieces; a piece of blanks is " "
NoIndexedSnippets == "No indexed snippets were retrieved for this repository yet."
BestEffortAnswer == "Best-effort answer for: <question> ..."
ModelResponseNote == "\n\nModel response note:\n"
NoAnswerGenerated == "No answer generated."
KeyMissingWarning == "OPENAI_API_KEY missing; returned deterministic fallback answer."
LowConfidenceWarning ==
    "LLM returned low-confidence wording; appended deterministic retrieval summary."

\* _deterministic_summary_answer
DeterministicSummaryAnswer(retrieval_pack, chosen) ==
    IF chosen = <<>> /\ ~retrieval_pack.has_nodes
    THEN <<NoIndexedSnippets>>
    ELSE <<BestEffortAnswer>>

AnswerResponse(answer, citations, warning) ==
    [answer |-> answer, citations |-> citations, warning |-> warning]

NoAnswer == AnswerResponse(<<>>, <<>>, None)

\* _fallback_answer
FallbackAnswer(retrieval_pack) ==
    LET snippets == Take(SortedSnippets(retrieval_pack), MAX_CONTEXT_SNIPPETS) IN
    IF snippets = <<>> /\ ~retrieval_pack.has_nodes
    THEN AnswerResponse(<<NoIndexedSnippets>>, <<>>, KeyMissingWarning)
    ELSE AnswerResponse(DeterministicSummaryAnswer(retrieval_pack, snippets),
                        SnippetIdsOf(Take(snippets, 5)), KeyMissingWarning)

\* text.strip(): the pieces of blanks at the two ends are dropped
TextStrip(text) ==
    LET solid == {i \in 1..Len(text) : text[i] # " "} IN
    IF solid = {} THEN <<>>
    ELSE SubSeq(text, CHOOSE i \in solid : \A j \in solid : i <= j,
                      CHOOSE i \in solid : \A j \in solid : i >= j)

TextLower(text) == [i \in 1..Len(text) |-> StrLower(text[i])]

WeakMarkers ==
    {"i'm unsure", "i am unsure", "not enough context", "cannot determine",
     "no context", "can't determine"}

\* _looks_low_confidence
LooksLowConfidence(answer) ==
    LET text == TextLower(TextStrip(answer)) IN
    \/ text = <<>>
    \/ \E i \in 1..Len(text) : text[i] \in WeakMarkers

\* variant: a token is kept whether it is an allowed id or not
KeepCitation_Unchecked(citations, item, allowed_ids) ==
    LET token == StrLower(StrStrip(item)) IN
    IF token \notin Range(citations) THEN Append(citations, token) ELSE citations

\* one turn of the loop over citations_raw
KeepCitation(citations, item, allowed_ids) ==
    LET token == StrLower(StrStrip(item)) IN
    IF token \in allowed_ids /\ token \notin Range(citations)
    THEN Append(citations, token)
    ELSE citations

RECURSIVE KeepCitations(_, _, _, _)
KeepCitations(citations, citations_raw, i, allowed_ids) ==
    IF i > Len(citations_raw) THEN citations
    ELSE KeepCitations(KeepCitation(citations, citations_raw[i], allowed_ids),
                       citations_raw, i + 1, allowed_ids)

\* the strings that are digests
Digests == {"a", "b", "z"}

\* _extract_ids: the digests in the lowered text that are allowed, once each
RECURSIVE ExtractIds(_, _, _, _)
ExtractIds(ids, text, i, allowed) ==
    IF i > Len(text) THEN ids
    ELSE LET token == StrLower(text[i]) IN
         ExtractIds(IF token \in Digests /\ token \in allowed /\ token \notin Range(ids)
                    THEN Append(ids, token) ELSE ids,
                    text, i + 1, allowed)

\* the answers of the chat provider to one request: no answer (HTTPError,
\* URLError), a payload without choices[0].message.content, a content
\* that is no JSON, a JSON object with or without an answer and with
\* citations that are a list or not, and JSON that is no object
AnswerTexts ==
    {<<>>, <<" ">>, <<"The parser walks the syntax tree.">>,
     <<" ", "Cannot determine", "the entry point.">>, <<"I'M UNSURE">>}
PlainContents ==
    {<<"See", "B", "and", "a", "and", "z", "and", "a">>, <<"not enough context">>}
CitationItems == {"a", " B ", "z"}
NotAList == <<"not a list">>
ProviderResponses(n) ==
    {[kind |-> k, answer |-> <<>>, citations |-> <<>>] :
        k \in {"HTTPError", "URLError", "invalid_payload", "json_other"}}
    \cup {[kind |-> "plain", answer |-> content, citations |-> <<>>] :
            content \in PlainContents}
    \cup {[kind |-> "json_object", answer |-> answer, citations |-> citations] :
            answer \in AnswerTexts, citations \in Lists(CitationItems, n)}
    \cup {[kind |-> "json_object_citations_no_list", answer |-> answer, citations |-> NotAList] :
            answer \in AnswerTexts}
NoProviderResponse == [kind |-> "none", answer |-> <<>>, citations |-> <<>>]

\* _openai_answer from the answer of the provider on; an exception is
\* its class and its detail
OpenaiAnswer(retrieval_pack, resp) ==
    LET snippets == Take(SortedSnippets(retrieval_pack), MAX_CONTEXT_SNIPPETS)
        allowed_ids == Range(SnippetIdsOf(snippets))
        parsed == IF resp.kind = "plain"
                  THEN [answer |-> resp.answer,
                        citations |-> ExtractIds(<<>>, resp.answer, 1, allowed_ids),
                        is_list |-> TRUE]
                  ELSE [answer |-> resp.answer, citations |-> resp.citations,
                        is_list |-> resp.kind = "json_object"]
        stripped == TextStrip(parsed.answer)
        answer == IF stripped = <<>> THEN <<NoAnswerGenerated>> ELSE stripped
        kept == IF parsed.is_list
                THEN KeepCitations(<<>>, parsed.citations, 1, allowed_ids)
                ELSE <<>>
        citations == IF kept = <<>> THEN SnippetIdsOf(Take(snippets, 3)) ELSE kept
    IN CASE resp.kind \in {"HTTPError", "URLError"} ->
              [raised |-> "HTTPException", out |-> NoAnswer]
         [] resp.kind = "invalid_payload" ->
              [raised |-> "HTTPException", out |-> NoAnswer]
         [] resp.kind = "json_other" ->
              [raised |-> "AttributeError", out |-> NoAnswer]
         [] OTHER ->
              [raised |-> None,
               out |-> IF snippets # <<>> /\ LooksLowConfidence(answer)
                       THEN AnswerResponse(
                              DeterministicSummaryAnswer(retrieval_pack, snippets)
                                 \o <<ModelResponseNote>> \o answer,
                              citations, LowConfidenceWarning)
                       ELSE AnswerResponse(answer, citations, None)]

\* a request to /answer: whether OPENAI_API_KEY is set, the retrieval
\* pack, the answer of the provider if it was called, and the response
\* or the exception the request ends with
NewAnswer(configured, retrieval_pack) ==
    [pc |-> "start", configured |-> configured, pack |-> retrieval_pack,
     called |-> FALSE, resp |-> NoProviderResponse, raised |-> None, out |-> NoAnswer]
IdleAnswer ==
    [NewAnswer(FALSE, [snippets |-> <<>>, has_nodes |-> FALSE]) EXCEPT !.pc = "none"]

\* -------------------------------------------------------------- sanitizer
\* The module services/retrieval/text2cypher.py is not among the sources;
\* the sanitizer is the one of section 4.F of the specification.  A query
\* is the list of its words; a run of blanks is a word, and so is a code
\* fence (three backquotes), written <fence>.

QueryWords ==
    {"MATCH", "(n)", "RETURN", "DETACH", "DELETE", "create",
     "n.offset", " ", "<fence>", "FOO"}

\* str.upper() of a word
Upper(word) ==
    CASE word = "create" -> "CREATE"
      [] word = "(n)" -> "(N)"
      [] word = "n.offset" -> "N.OFFSET"
      [] OTHER -> word

\* the words of the keywords that make a query unsafe
ForbiddenKeywords ==
    {<<"CREATE">>, <<"MERGE">>, <<"DELETE">>, <<"DETACH", "DELETE">>,
     <<"SET">>, <<"REMOVE">>, <<"DROP">>}

ReadOnlyKeywords == {"MATCH", "RETURN", "WITH", "UNWIND", "CALL"}

\* variant: the keyword is looked for as it is written
KeywordAt_CaseSensitive(query, i, keyword) ==
    /\ i + Len(keyword) - 1 <= Len(query)
    /\ \A k \in 1..Len(keyword) : query[i + k - 1] = keyword[k]

\* the keyword stands at word i of the query, in any letter case
KeywordAt(query, i, keyword) ==
    /\ i + Len(keyword) - 1 <= Len(query)
    /\ \A k \in 1..Len(keyword) : Upper(query[i + k - 1]) = keyword[k]

ContainsForbidden(query) ==
    \E i \in 1..Len(query) : \E keyword \in ForbiddenKeywords :
        KeywordAt(query, i, keyword)

\* the query without the code fences and the blanks around it
StripFences(query) ==
    LET inner == {i \in 1..Len(query) : query[i] \notin {" ", "<fence>"}} IN
    IF inner = {} THEN <<>>
    ELSE SubSeq(query, CHOOSE i \in inner : \A j \in inner : i <= j,
                       CHOOSE i \in inner : \A j \in inner : i >= j)

UnsafeQuery == "UnsafeQuery"

\* the sanitizer: the query it lets through, or UnsafeQuery
SanitizeCypher(query) ==
    LET stripped == StripFences(query) IN
    IF ContainsForbidden(query)
    THEN [err |-> UnsafeQuery, out |-> <<>>]
    ELSE IF stripped = <<>> \/ Upper(stripped[1]) \notin ReadOnlyKeywords
    THEN [err |-> UnsafeQuery, out |-> <<>>]
    ELSE [err |-> None, out |-> stripped]

NewQuery(query) == [pc |-> "generated", query |-> query, err |-> None, out |-> <<>>]
IdleSanitize == [NewQuery(<<>>) EXCEPT !.pc = "none"]

\* ------------------------------------------------------------------- Init

Init ==
    /\ job = NoJob
    /\ gw = "start"
    /\ upload = FALSE
    /\ archive = "none"
    /\ repo_dir = FALSE
    /\ facts = FALSE
    /\ queue = [r \in TaskRetries |-> 0]
    /\ redelivered = 0
    /\ max_retries \in BrokerMaxRetries
    /\ wk = [w \in Workers |-> IdleWorker]
    /\ last_ret = "none"
    /\ cl = NoCall
    /\ zip_file = NoZip
    /\ disk = EmptyDisk
    /\ ing = IdleIngest
    /\ repo = NoRepo
    /\ pg = IdleParse
    /\ rt = NoRetrieve
    /\ an = IdleAnswer
    /\ sq = IdleSanitize

\* ------------------------------------------------------- gateway: ingest_zip

CreatePipelineJob ==
    /\ gw = "start"
    /\ job' = NewJob
    /\ gw' = "job_created"
    /\ UNCHANGED <<upload, archive, repo_dir, facts, queue, redelivered, max_retries, wk, last_ret>>
    /\ UNCHANGED unitVars

SaveUpload ==
    /\ gw = "job_created"
    /\ \E a \in UploadedArchives : archive' = a
    /\ upload' = TRUE
    /\ gw' = "upload_saved"
    /\ UNCHANGED <<job, repo_dir, facts, queue, redelivered, max_retries, wk, last_ret>>
    /\ UNCHANGED unitVars

\* enqueue_pipeline_job; a failure of the broker is logged and swallowed
EnqueuePipelineJob ==
    /\ gw = "upload_saved"
    /\ \E ok \in BOOLEAN :
         queue' = IF ok THEN [queue EXCEPT ![0] = @ + 1] ELSE queue
    /\ gw' = "done"
    /\ UNCHANGED <<job, upload, archive, repo_dir, facts, redelivered, max_retries, wk, last_ret>>
    /\ UNCHANGED unitVars

\* --------------------------------------------------------------- broker

\* at-least-once delivery: a message is handed out a second time
Redeliver ==
    /\ redelivered < MaxRedeliveries
    /\ \E r \in TaskRetries :
         /\ queue[r] > 0
         /\ queue' = [queue EXCEPT ![r] = @ + 1]
    /\ redelivered' = redelivered + 1
    /\ UNCHANGED <<job, gw, upload, archive, repo_dir, facts, max_retries, wk, last_ret>>
    /\ UNCHANGED unitVars

\* ---------------------------------------------------- run_pipeline_job

\* a task is delivered to worker w: the claim transaction.  The job row
\* exists whenever a task does (the row is committed before the enqueue and
\* never deleted), so the `job is None` returns are not taken.  Idle workers
\* are interchangeable: the first idle one takes the task.
Claim(w) ==
    /\ wk[w].pc = "idle"
    /\ \A v \in Workers : v < w => wk[v].pc # "idle"
    /\ \E r \in TaskRetries :
         /\ queue[r] > 0
         /\ queue' = [queue EXCEPT ![r] = @ - 1]
         /\ IF ClaimResult(job) = "claimed"
            THEN /\ job' = ClaimJob(job)
                 /\ wk' = [wk EXCEPT ![w] =
                        [IdleWorker EXCEPT !.pc = "INGEST", !.retries = r,
                                           !.claimed = ClaimJob(job).progress]]
                 /\ last_ret' = last_ret
            ELSE /\ job' = job
                 /\ wk' = wk
                 /\ last_ret' = ClaimResult(job)
    /\ UNCHANGED <<gw, upload, archive, repo_dir, facts, redelivered, max_retries>>
    /\ UNCHANGED unitVars

\* the answers of the EMBED step after one more request, answered resp
Answered(answers, resp) ==
    IF answers = "none" THEN
        CASE resp = 503 -> "only503"
          [] resp = 200 -> "first200"
          [] resp = 401 -> "first401"
          [] OTHER -> "other"
    ELSE IF answers = "only503" /\ resp = 503 THEN "only503"
    ELSE IF answers = "only503" /\ resp = 200 THEN "only503_then_200"
    ELSE "other"

\* variant: the writes of a step that raised are committed all the same
FinishStep_NoRollback(w, step, res, answers) ==
    IF res.ok
    THEN /\ job' = StepCommit(job, step)
         /\ wk' = [wk EXCEPT ![w].pc = NextPc(step),
                             ![w].done = Append(@, step),
                             ![w].attempt = 0,
                             ![w].answers = answers]
    ELSE /\ job' = StepCommit(job, step)
         /\ wk' = [wk EXCEPT ![w].pc = "HANDLER", ![w].exc = res.exc,
                             ![w].attempt = 0,
                             ![w].answers = answers]

\* end of a step transaction of worker w: commit on success, roll back and
\* enter the except block on an exception; answers is what the requests
\* of the step were answered
FinishStep(w, step, res, answers) ==
    IF res.ok
    THEN /\ job' = StepCommit(job, step)
         /\ wk' = [wk EXCEPT ![w].pc = NextPc(step),
                             ![w].done = Append(@, step),
                             ![w].attempt = 0,
                             ![w].answers = answers]
    ELSE /\ job' = job
         /\ wk' = [wk EXCEPT ![w].pc = "HANDLER", ![w].exc = res.exc,
                             ![w].attempt = 0,
                             ![w].answers = answers]

StepIngest(w) ==
    /\ wk[w].pc = "INGEST"
    /\ LET out == RunIngest(repo_dir, upload, archive) IN
         /\ repo_dir' = out.repo
         /\ FinishStep(w, "INGEST", out.res, wk[w].answers)
    /\ UNCHANGED <<gw, upload, archive, facts, queue, redelivered, max_retries, last_ret>>
    /\ UNCHANGED unitVars

StepParse(w) ==
    /\ wk[w].pc = "PARSE"
    /\ \E writeOk \in BOOLEAN :
         LET res == RunParse(repo_dir, writeOk) IN
         /\ facts' = (facts \/ res.ok)
         /\ FinishStep(w, "PARSE", res, wk[w].answers)
    /\ UNCHANGED <<gw, upload, archive, repo_dir, queue, redelivered, max_retries, last_ret>>
    /\ UNCHANGED unitVars

StepLoadGraph(w) ==
    /\ wk[w].pc = "LOAD_GRAPH"
    /\ \E resp \in LoadResponses :
         FinishStep(w, "LOAD_GRAPH", RunLoadGraph(facts, resp), wk[w].answers)
    /\ UNCHANGED <<gw, upload, archive, repo_dir, facts, queue, redelivered, max_retries, last_ret>>
    /\ UNCHANGED unitVars

\* _run_embed with embeddings disabled in the worker's environment
StepEmbedDisabled(w) ==
    /\ wk[w].pc = "EMBED"
    /\ wk[w].attempt = 0
    /\ FinishStep(w, "EMBED", Ok, wk[w].answers)
    /\ UNCHANGED <<gw, upload, archive, repo_dir, facts, queue, redelivered, max_retries, last_ret>>
    /\ UNCHANGED unitVars

\* one request of the loop of _run_embed, inside the EMBED transaction
StepEmbed(w) ==
    /\ wk[w].pc = "EMBED"
    /\ \E resp \in EmbedResponses :
         LET outcome == EmbedAttempt(resp, wk[w].attempt + 1)
             answers == Answered(wk[w].answers, resp) IN
         IF outcome = "sleep"
         THEN /\ wk' = [wk EXCEPT ![w].attempt = @ + 1,
                                  ![w].answers = answers]
              /\ job' = job
         ELSE FinishStep(w, "EMBED", EmbedResult(outcome), answers)
    /\ UNCHANGED <<gw, upload, archive, repo_dir, facts, queue, redelivered, max_retries, last_ret>>
    /\ UNCHANGED unitVars

Complete(w) ==
    /\ wk[w].pc = "COMPLETE"
    /\ job' = CompleteJob(job)
    /\ wk' = [wk EXCEPT ![w] = IdleWorker]
    /\ last_ret' = "completed"
    /\ UNCHANGED <<gw, upload, archive, repo_dir, facts, queue, redelivered, max_retries>>
    /\ UNCHANGED unitVars

\* the except block up to `if retry_job`; without a retry the task returns
FailureHandler(w) ==
    /\ wk[w].pc = "HANDLER"
    /\ job' = FailJob(job, wk[w].exc)
    /\ wk' = IF RetryJob(job, wk[w].exc)
             THEN [wk EXCEPT ![w].pc = "RETRY", ![w].done = <<>>,
                             ![w].attempt = 0, ![w].claimed = 0,
                             ![w].answers = "none"]
             ELSE [wk EXCEPT ![w] = IdleWorker]
    /\ last_ret' = IF RetryJob(job, wk[w].exc) THEN last_ret ELSE "failed"
    /\ UNCHANGED <<gw, upload, archive, repo_dir, facts, queue, redelivered, max_retries>>
    /\ UNCHANGED unitVars

\* self.retry(exc=exc, countdown=2): the broker takes the message with
\* retries + 1 and the Retry exception leaves the task ...
RetryAccepted(w) ==
    /\ wk[w].pc = "RETRY"
    /\ ~(wk[w].retries + 1 > max_retries)
    /\ queue' = [queue EXCEPT ![wk[w].retries + 1] = @ + 1]
    /\ wk' = [wk EXCEPT ![w] = IdleWorker]
    /\ last_ret' = "retry"
    /\ UNCHANGED <<job, gw, upload, archive, repo_dir, facts, redelivered, max_retries>>
    /\ UNCHANGED unitVars

\* ... or the retry limit of the task is exceeded: the handler of
\* MaxRetriesExceededError marks the job failed and the task returns
RetryRefused(w) ==
    /\ wk[w].pc = "RETRY"
    /\ wk[w].retries + 1 > max_retries
    /\ job' = RetryRefusedJob(job, wk[w].exc)
    /\ wk' = [wk EXCEPT ![w] = IdleWorker]
    /\ last_ret' = "failed"
    /\ UNCHANGED <<gw, upload, archive, repo_dir, facts, queue, redelivered, max_retries>>
    /\ UNCHANGED unitVars

Next ==
    \/ CreatePipelineJob
    \/ SaveUpload
    \/ EnqueuePipelineJob
    \/ Redeliver
    \/ \E w \in Workers : Claim(w)
    \/ \E w \in Workers : StepIngest(w)
    \/ \E w \in Workers : StepParse(w)
    \/ \E w \in Workers : StepLoadGraph(w)
    \/ \E w \in Workers : StepEmbedDisabled(w)
    \/ \E w \in Workers : StepEmbed(w)
    \/ \E w \in Workers : Complete(w)
    \/ \E w \in Workers : FailureHandler(w)
    \/ \E w \in Workers : RetryAccepted(w)
    \/ \E w \in Workers : RetryRefused(w)

Spec == Init /\ [][Next]_vars

\* ------------------------------------------- the engine with worker stops

\* the worker process of w stops while it executes a task, between two
\* transactions or inside one: an open transaction is rolled back by the
\* database and the committed record stays as it is.  The broker hands the
\* message out again if it was not acknowledged yet, or not at all if it
\* was; the restarted worker is idle.
WorkerStops(w) ==
    /\ wk[w].pc # "idle"
    /\ \E unacked \in BOOLEAN :
         queue' = IF unacked THEN [queue EXCEPT ![wk[w].retries] = @ + 1]
                  ELSE queue
    /\ wk' = [wk EXCEPT ![w] = IdleWorker]
    /\ UNCHANGED <<job, gw, upload, archive, repo_dir, facts, redelivered, max_retries, last_ret>>
    /\ UNCHANGED unitVars

\* what worker w does of its own once it holds a task
WorkerStep(w) ==
    \/ StepIngest(w)
    \/ StepParse(w)
    \/ StepLoadGraph(w)
    \/ StepEmbedDisabled(w)
    \/ StepEmbed(w)
    \/ Complete(w)
    \/ FailureHandler(w)
    \/ RetryAccepted(w)
    \/ RetryRefused(w)

NextStops ==
    \/ Next
    \/ \E w \in Workers : WorkerStops(w)

\* workers that run keep running and a queued task is delivered
Fairness ==
    /\ \A w \in Workers : WF_vars(WorkerStep(w))
    /\ WF_vars(\E w \in Workers : Claim(w))

SpecStops == Init /\ [][NextStops]_vars /\ Fairness

\* ------------------------------------------- the retry loops on their own

\* the job engine at rest
EngineIdle ==
    /\ job = NoJob
    /\ gw = "start"
    /\ upload = FALSE
    /\ archive = "none"
    /\ repo_dir = FALSE
    /\ facts = FALSE
    /\ queue = [r \in TaskRetries |-> 0]
    /\ redelivered = 0
    /\ max_retries = 3
    /\ wk = [w \in Workers |-> IdleWorker]
    /\ last_ret = "none"

\* the functions that are run on their own, before a run
ClientIdle == cl = NoCall
IngestIdle ==
    /\ zip_file = NoZip
    /\ disk = EmptyDisk
    /\ ing = IdleIngest
ParseIdle ==
    /\ repo = NoRepo
    /\ pg = IdleParse
RetrieveIdle == rt = NoRetrieve
AnswerIdle == an = IdleAnswer
SanitizeIdle == sq = IdleSanitize

InitClient ==
    /\ EngineIdle
    /\ cl \in ClientCalls
    /\ IngestIdle
    /\ ParseIdle
    /\ RetrieveIdle
    /\ AnswerIdle
    /\ SanitizeIdle

\* what an iteration with outcome `it` leaves behind
AfterIteration(c, resp, it, sleep) ==
    CASE it.kind = "break" ->
            [c EXCEPT !.attempt = @ + 1, !.resp = resp, !.pc = "returned"]
      [] it.kind = "raise" ->
            [c EXCEPT !.attempt = @ + 1, !.resp = resp, !.pc = "raised",
                      !.err = it.err]
      [] it.kind = "sleep" ->
            [c EXCEPT !.attempt = @ + 1, !.resp = resp,
                      !.capped = BackoffCap(c.backoff_base, c.backoff_cap,
                                            c.attempt + 1),
                      !.sleep_sec = sleep, !.slept = @ + 1]

\* openai_utils.embed: the test of the while loop and one iteration, or
\* the `if data is None` that follows a loop that never ran
EmbedCall ==
    /\ cl.impl = "embed"
    /\ cl.pc = "loop"
    /\ IF cl.attempt < cl.max_retries
       THEN \E resp \in ClientResponses :
              \E sleep \in SleepChoices(cl.impl, cl.backoff_base,
                                        cl.backoff_cap, cl.attempt + 1) :
                LET it == EmbedIteration(resp, cl.attempt + 1, cl.max_retries) IN
                cl' = AfterIteration(cl, resp, it,
                                     IF it.kind = "sleep" THEN sleep ELSE 0)
       ELSE cl' = [cl EXCEPT !.pc = "raised",
                             !.err = Failure("HTTPException", 502,
                                        "OpenAI embedding failed after attempt(s)",
                                        cl.max_retries, 0)]
    /\ UNCHANGED <<engineVars, ingestVars, parseVars, retrieveVars, answerVars, sanitizeVars>>

\* retrieval_service _openai_embed: one iteration of the for loop
OpenaiEmbedCall ==
    /\ cl.impl = "_openai_embed"
    /\ cl.pc = "loop"
    /\ cl.attempt < cl.max_retries
    /\ \E resp \in ClientResponses :
         \E sleep \in SleepChoices(cl.impl, cl.backoff_base,
                                   cl.backoff_cap, cl.attempt + 1) :
           LET it == OpenaiEmbedIteration(resp, cl.attempt + 1, cl.max_retries) IN
           cl' = AfterIteration(cl, resp, it,
                                IF it.kind = "sleep" THEN sleep ELSE 0)
    /\ UNCHANGED <<engineVars, ingestVars, parseVars, retrieveVars, answerVars, sanitizeVars>>

\* _run_embed with embeddings enabled: one iteration of the for loop
RunEmbedCall ==
    /\ cl.impl = "_run_embed"
    /\ cl.pc = "loop"
    /\ cl.attempt < cl.max_retries
    /\ \E resp \in ClientResponses :
         \E sleep \in SleepChoices(cl.impl, cl.backoff_base,
                                   cl.backoff_cap, cl.attempt + 1) :
           LET it == RunEmbedIteration(resp, cl.attempt + 1) IN
           cl' = AfterIteration(cl, resp, it,
                                IF it.kind = "sleep" THEN sleep ELSE 0)
    /\ UNCHANGED <<engineVars, ingestVars, parseVars, retrieveVars, answerVars, sanitizeVars>>

NextClient ==
    \/ EmbedCall
    \/ OpenaiEmbedCall
    \/ RunEmbedCall

SpecClient == InitClient /\ [][NextClient]_vars

\* --------------------------------------------- _ingest_zip on its own
\* The INGEST transaction holds the lock of the job row, so the calls of
\* _ingest_zip for one repository follow one another.

InitIngest ==
    /\ EngineIdle
    /\ ClientIdle
    /\ ParseIdle
    /\ RetrieveIdle
    /\ AnswerIdle
    /\ SanitizeIdle
    /\ zip_file \in Uploads
    /\ disk = EmptyDisk
    /\ ing = IdleIngest

\* a call of _ingest_zip up to tmp_dir.mkdir(): it returns at once when
\* the repository exists and raises when the upload is missing
IngestBegin ==
    /\ ing.pc \in {"idle", "returned", "raised"}
    /\ ing.runs < MaxRuns
    /\ IF SkipsUnzip(disk)
       THEN /\ ing' = [ing EXCEPT !.pc = "returned", !.err = None, !.i = 0,
                                  !.skipped = TRUE, !.runs = @ + 1]
            /\ disk' = disk
       ELSE IF ~zip_file.exists
       THEN /\ ing' = [ing EXCEPT !.pc = "raised", !.i = 0,
                                  !.err = "ZIP upload not found",
                                  !.skipped = FALSE, !.runs = @ + 1]
            /\ disk' = disk
       ELSE /\ ing' = [ing EXCEPT !.pc = "validate", !.err = None, !.i = 0,
                                  !.skipped = FALSE, !.runs = @ + 1]
            /\ disk' = FreshTmp(disk)
    /\ UNCHANGED <<engineVars, clientVars, parseVars, retrieveVars, answerVars, sanitizeVars, zip_file>>

\* _safe_extract_zip: the size test and the first loop; an error goes
\* through the except block of _ingest_zip
IngestValidate ==
    /\ ing.pc = "validate"
    /\ LET verdict == ValidateZip(zip_file) IN
       IF verdict = "ok"
       THEN /\ ing' = [ing EXCEPT !.pc = "extract", !.i = 1, !.opened = @ + 1]
            /\ disk' = disk
       ELSE /\ ing' = [ing EXCEPT !.pc = "raised", !.err = verdict,
                                  !.opened = @ + 1]
            /\ disk' = CleanUp(disk)
    /\ UNCHANGED <<engineVars, clientVars, parseVars, retrieveVars, answerVars, sanitizeVars, zip_file>>

\* one iteration of the second loop; the write can fail (OSError), which
\* goes through the except block of _ingest_zip
IngestMaterialize ==
    /\ ing.pc = "extract"
    /\ ing.i <= Len(zip_file.infos)
    /\ \E written \in BOOLEAN :
         IF written
         THEN /\ disk' = Materialize(disk, zip_file.infos, ing.i)
              /\ ing' = [ing EXCEPT !.i = @ + 1]
         ELSE /\ disk' = CleanUp(disk)
              /\ ing' = [ing EXCEPT !.pc = "raised", !.err = "OSError"]
    /\ UNCHANGED <<engineVars, clientVars, parseVars, retrieveVars, answerVars, sanitizeVars, zip_file>>

\* the end of the second loop and tmp_dir.rename(repo_dir)
IngestRename ==
    /\ ing.pc = "extract"
    /\ ing.i > Len(zip_file.infos)
    /\ disk' = Rename(disk)
    /\ ing' = [ing EXCEPT !.pc = "returned"]
    /\ UNCHANGED <<engineVars, clientVars, parseVars, retrieveVars, answerVars, sanitizeVars, zip_file>>

\* the worker process dies inside _ingest_zip: nothing is cleaned up
IngestCrash ==
    /\ ing.pc \in {"validate", "extract"}
    /\ ing.crashes < MaxCrashes
    /\ ing' = [ing EXCEPT !.pc = "idle", !.crashes = @ + 1]
    /\ UNCHANGED <<engineVars, clientVars, parseVars, retrieveVars, answerVars, sanitizeVars, zip_file, disk>>

NextIngest ==
    \/ IngestBegin
    \/ IngestValidate
    \/ IngestMaterialize
    \/ IngestRename
    \/ IngestCrash

SpecIngest == InitIngest /\ [][NextIngest]_vars

\* ------------------------------------------ build_graph_facts on its own
\* The PARSE transaction holds the lock of the job row, so the calls of
\* build_graph_facts for one repository follow one another.  The files of
\* the repository can be read.

InitParse ==
    /\ EngineIdle
    /\ ClientIdle
    /\ IngestIdle
    /\ RetrieveIdle
    /\ AnswerIdle
    /\ SanitizeIdle
    /\ repo \in Repos(MaxSyntaxNodes, MaxRepoFiles)
    /\ pg = IdleParse

\* a call of build_graph_facts, the first for the repository or the one
\* that follows it on the same files: the walk of _iter_source_files comes
\* upon the files in an order of its own, the facts of the sorted files
\* are collected, and the nodes and the edges are sorted
BuildGraphFacts ==
    /\ pg.pc \in {"idle", "built"}
    /\ \E order \in Enumerations(WalkSource(DOMAIN repo, <<>>)) :
         LET files == IterSourceFiles(order)
             got == CollectFacts(repo, RepoId, files, 1, <<>>, {})
         IN pg' = [pc |-> IF pg.pc = "idle" THEN "built" ELSE "rebuilt",
                   run |-> pg.run + 1,
                   order |-> order,
                   reordered |-> (pg.run >= 1 /\ order # pg.order),
                   files |-> files,
                   k |-> Len(files) + 1,
                   nodes_by_id |-> got.nodes_by_id,
                   edges_set |-> got.edges_set,
                   doc |-> FactsDocument(RepoId, got.nodes_by_id, got.edges_set),
                   first |-> IF pg.run = 1 THEN pg.doc ELSE pg.first]
    /\ UNCHANGED <<engineVars, clientVars, ingestVars, retrieveVars, answerVars, sanitizeVars, repo>>

NextParse == BuildGraphFacts

SpecParse == InitParse /\ [][NextParse]_vars

\* --------------------------------------------------- retrieve on its own

InitRetrieve ==
    /\ EngineIdle
    /\ ClientIdle
    /\ IngestIdle
    /\ ParseIdle
    /\ AnswerIdle
    /\ SanitizeIdle
    /\ rt \in {NewRetrieve(top_k) : top_k \in 1..MaxTopK}

\* the fulltext search: its hits, or none when graph_service fails
RetrieveKeyword ==
    /\ rt.pc = "start"
    /\ \E hits \in HitLists(KeywordIds, KeywordScores, MaxHits) :
         rt' = [rt EXCEPT !.pc = "semantic", !.keyword_hits = hits]
    /\ UNCHANGED <<engineVars, clientVars, ingestVars, parseVars, answerVars, sanitizeVars>>

\* the semantic search, which is left out when embeddings are disabled
\* or the repository has none and gives no hits when a request fails,
\* then the merge, the ranking and the cut
RetrieveSemantic ==
    /\ rt.pc = "semantic"
    /\ \E semantic \in {"disabled", "no_embeddings", "failed", "searched"} :
       \E hits \in HitLists(SemanticIds, SemanticScores, MaxHits - Len(rt.keyword_hits)) :
         /\ semantic # "searched" => hits = <<>>
         /\ LET ranked == Rank(rt.keyword_hits, hits, rt.top_k) IN
            rt' = [rt EXCEPT !.pc = IF NeedsFallback(ranked) THEN "fallback" ELSE "expand",
                             !.semantic = semantic,
                             !.semantic_hits = hits,
                             !.ranked = ranked]
    /\ UNCHANGED <<engineVars, clientVars, ingestVars, parseVars, answerVars, sanitizeVars>>

\* the default-ranking search: its hits are ranked and cut, a failure of
\* graph_service is logged and leaves the list empty
RetrieveFallback ==
    /\ rt.pc = "fallback"
    /\ \E hits \in HitLists(KeywordIds, KeywordScores, MaxHits) :
         rt' = [rt EXCEPT !.pc = "expand",
                          !.fallback_called = TRUE,
                          !.ranked = RankFallback(rt.ranked, hits, rt.top_k)]
    /\ UNCHANGED <<engineVars, clientVars, ingestVars, parseVars, answerVars, sanitizeVars>>

\* the expansion of the selected ids, which is asked of graph_service
\* when there are any and whose failure leaves retrieve, and the pack
RetrieveReturn ==
    /\ rt.pc = "expand"
    /\ \E ok \in BOOLEAN :
         /\ ~ok => rt.ranked # <<>>
         /\ rt' = [rt EXCEPT !.pc = IF ok THEN "returned" ELSE "raised",
                             !.snippets = IF ok THEN rt.ranked ELSE <<>>]
    /\ UNCHANGED <<engineVars, clientVars, ingestVars, parseVars, answerVars, sanitizeVars>>

NextRetrieve ==
    \/ RetrieveKeyword
    \/ RetrieveSemantic
    \/ RetrieveFallback
    \/ RetrieveReturn

SpecRetrieve == InitRetrieve /\ [][NextRetrieve]_vars

\* ------------------------------------------------ the answer on its own

InitAnswer ==
    /\ EngineIdle
    /\ ClientIdle
    /\ IngestIdle
    /\ ParseIdle
    /\ RetrieveIdle
    /\ SanitizeIdle
    /\ an \in {NewAnswer(configured, retrieval_pack) :
                 configured \in BOOLEAN,
                 retrieval_pack \in RetrievalPacks(MaxPackSnippets)}

\* answer without OPENAI_API_KEY: the deterministic answer
AnswerFallback ==
    /\ an.pc = "start"
    /\ ~an.configured
    /\ an' = [an EXCEPT !.pc = "returned", !.out = FallbackAnswer(an.pack)]
    /\ UNCHANGED <<engineVars, clientVars, ingestVars, parseVars, retrieveVars, sanitizeVars>>

\* answer with OPENAI_API_KEY: the call of the provider and what
\* _openai_answer makes of its answer
AnswerProvider ==
    /\ an.pc = "start"
    /\ an.configured
    /\ \E resp \in ProviderResponses(MaxCitations) :
         LET got == OpenaiAnswer(an.pack, resp) IN
         an' = [an EXCEPT !.pc = IF got.raised = None THEN "returned" ELSE "raised",
                          !.called = TRUE,
                          !.resp = resp,
                          !.raised = got.raised,
                          !.out = got.out]
    /\ UNCHANGED <<engineVars, clientVars, ingestVars, parseVars, retrieveVars, sanitizeVars>>

NextAnswer ==
    \/ AnswerFallback
    \/ AnswerProvider

SpecAnswer == InitAnswer /\ [][NextAnswer]_vars

\* --------------------------------------------- the sanitizer on its own

InitSanitize ==
    /\ EngineIdle
    /\ ClientIdle
    /\ IngestIdle
    /\ ParseIdle
    /\ RetrieveIdle
    /\ AnswerIdle
    /\ sq \in {NewQuery(query) : query \in Lists(QueryWords, MaxQueryWords)}

\* the generated query is sanitized
Sanitize ==
    /\ sq.pc = "generated"
    /\ LET got == SanitizeCypher(sq.query) IN
       sq' = [sq EXCEPT !.pc = "sanitized", !.err = got.err, !.out = got.out]
    /\ UNCHANGED <<engineVars, clientVars, ingestVars, parseVars, retrieveVars, answerVars>>

NextSanitize == Sanitize

SpecSanitize == InitSanitize /\ [][NextSanitize]_vars

\* ----------------------------------------------------------- properties

RECURSIVE SumTo(_, _)
SumTo(q, n) == IF n < 0 THEN 0 ELSE q[n] + SumTo(q, n - 1)
QueueLen(q) == SumTo(q, MAX_ATTEMPTS)

\* worker w is between its claim and the commit of its completion or of
\* its failure handler
Active(w) ==
    wk[w].pc \in {"INGEST", "PARSE", "LOAD_GRAPH", "EMBED", "COMPLETE", "HANDLER"}

\* this step is the delivery of a task message to a worker
TaskDelivered == QueueLen(queue') = QueueLen(queue) - 1

\* this step is the failure handler's transaction of worker w
Handled(w) ==
    /\ wk[w].pc = "HANDLER"
    /\ wk'[w].pc # "HANDLER"

\* C1: every change of a job's status is queued->running, running->completed,
\* running->queued (with the new attempts < MAX_ATTEMPTS) or running->failed;
\* completed and failed are never left.
C1_StatusTransitions ==
    [][(job.exists /\ job'.status # job.status) =>
         \/ job.status = "queued" /\ job'.status = "running"
         \/ job.status = "running" /\ job'.status = "completed"
         \/ /\ job.status = "running" /\ job'.status = "queued"
            /\ job'.attempts < MAX_ATTEMPTS
         \/ job.status = "running" /\ job'.status = "failed"]_vars

C3_FailedHasError ==
    job.status = "failed" => (job.error # None /\ job.error # "")

C3_Witness ==
    /\ job.status = "failed"
    /\ job.attempts = 1
    /\ job.error = "graph_service unreachable"
    /\ last_ret = "failed"

\* C4: attempts never decreases; the failure handler adds exactly one; the
\* claim, the step transactions, the completion (and every other step of the
\* system on an existing job) leave it unchanged.
C4_AttemptsMonotonic ==
    [][job.exists =>
         /\ job'.attempts >= job.attempts
         /\ \A w \in Workers : Handled(w) => job'.attempts = job.attempts + 1
         /\ (\A w \in Workers : ~Handled(w)) => job'.attempts = job.attempts]_vars

C4_Witness ==
    /\ job.attempts = 2
    /\ job.status = "running"
    /\ job.progress = 25

\* C5: a task delivered for a completed or running job returns that status,
\* changes no field of the job record and starts no pipeline step.
C5_ClaimIdempotent ==
    [][(TaskDelivered /\ job.status \in {"completed", "running"}) =>
         /\ job' = job
         /\ <<repo_dir, facts, upload>>' = <<repo_dir, facts, upload>>
         /\ wk' = wk
         /\ last_ret' = job.status]_vars

C5_Witness ==
    /\ last_ret = "running"
    /\ job.status = "running"
    /\ \E v \in Workers : wk[v].pc = "PARSE"

\* C6: a claim of a job that is neither completed nor running sets status =
\* running, error = none, current_step = INGEST and progress = max(previous
\* progress, 1) in one step; it never lowers progress and leaves attempts.
C6_ClaimWrites ==
    [][(TaskDelivered /\ job.status \notin {"completed", "running"}) =>
         /\ job'.status = "running"
         /\ job'.error = None
         /\ job'.current_step = "INGEST"
         /\ job'.progress = Max(job.progress, 1)
         /\ job'.progress >= job.progress
         /\ job'.attempts = job.attempts
         /\ \E w \in Workers : wk[w].pc = "idle" /\ wk'[w].pc = "INGEST"]_vars

C6_Witness ==
    /\ job.status = "running"
    /\ job.current_step = "INGEST"
    /\ job.progress = 50
    /\ job.attempts = 1
    /\ job.error = None
    /\ \E w \in Workers : wk[w].pc = "INGEST" /\ wk[w].claimed = 50

IsStepPrefix(done) ==
    /\ Len(done) <= Len(STEPS)
    /\ done = SubSeq(STEPS, 1, Len(done))

\* C7: within one execution the steps run in the order INGEST, PARSE,
\* LOAD_GRAPH, EMBED: the steps committed so far are a prefix of that order,
\* the step in progress is the one after the last committed step, each step
\* transaction adds the next step, and the job is marked completed only by an
\* execution in which all four steps were committed.
C7_StepOrder ==
    /\ [](\A w \in Workers :
            /\ IsStepPrefix(wk[w].done)
            /\ (wk[w].pc \in {"INGEST", "PARSE", "LOAD_GRAPH", "EMBED"} =>
                   wk[w].pc = STEPS[Len(wk[w].done) + 1])
            /\ (wk[w].pc = "COMPLETE" => wk[w].done = STEPS))
    /\ [][/\ \A w \in Workers :
              (wk'[w].done # wk[w].done /\ wk'[w].done # <<>>) =>
                 /\ Len(wk[w].done) < Len(STEPS)
                 /\ wk'[w].done = Append(wk[w].done, STEPS[Len(wk[w].done) + 1])
                 /\ job'.current_step = STEPS[Len(wk[w].done) + 1]
          /\ (job'.status = "completed" /\ job.status # "completed") =>
                 \E w \in Workers :
                    /\ wk[w].pc = "COMPLETE"
                    /\ wk[w].done = STEPS
                    /\ wk'[w].pc = "idle"]_vars

C7_Witness ==
    /\ job.status = "completed"
    /\ job.progress = 100
    /\ job.attempts = 1
    /\ last_ret = "completed"
    /\ \A w \in Workers : wk[w].pc = "idle"

\* the milestones as the design states them
MilestoneOf(step) ==
    CASE step = "INGEST" -> 25
      [] step = "PARSE" -> 50
      [] step = "LOAD_GRAPH" -> 75
      [] step = "EMBED" -> 90

\* a step transaction commits current_step and the milestone of its step,
\* the final transaction commits completed with progress 100
StepTransactions ==
    /\ \A w \in Workers :
         (wk'[w].done # wk[w].done /\ wk'[w].done # <<>>) =>
            LET step == wk'[w].done[Len(wk'[w].done)] IN
            /\ wk[w].pc = step
            /\ job'.current_step = step
            /\ job'.progress = MilestoneOf(step)
    /\ \A w \in Workers :
         (wk[w].pc = "COMPLETE" /\ wk'[w].pc # "COMPLETE") =>
            /\ job'.status = "completed"
            /\ job'.progress = 100

\* the progress of the record is the milestone of a step committed by an
\* execution that is under way
ShowsCommittedMilestone ==
    \E w \in Workers :
        /\ Active(w)
        /\ \E i \in 1..Len(wk[w].done) : job.progress = MilestoneOf(wk[w].done[i])

\* the progress of the record is the one a claim under way wrote
ShowsClaimedProgress ==
    \E w \in Workers : Active(w) /\ job.progress = wk[w].claimed

\* C8 as stated: step transactions commit current_step with the milestones
\* 25/50/75/90 and the final one completed/100; a record with status running
\* never shows a milestone of a step that has not succeeded in the current
\* execution.
C8_MilestonesOriginal ==
    /\ [][StepTransactions]_vars
    /\ []((job.status = "running" /\ job.progress \in {25, 50, 75, 90})
            => ShowsCommittedMilestone)

\* C8 amended: step transactions commit current_step with the milestones
\* 25/50/75/90 and the final one completed/100; a record with status running
\* shows the milestone of a step that succeeded in an execution under way, or
\* the progress that the claim of such an execution kept, max(previous, 1),
\* which after a re-claim is a milestone of an earlier execution.
C8_Milestones ==
    /\ [][StepTransactions]_vars
    /\ [](job.status = "running" =>
            (ShowsCommittedMilestone \/ ShowsClaimedProgress))

C8_Witness ==
    /\ job.status = "running"
    /\ job.progress = 75
    /\ job.current_step = "INGEST"
    /\ \E w \in Workers :
         wk[w].pc = "INGEST" /\ wk[w].done = <<>> /\ wk[w].claimed = 75
    /\ \A w \in Workers : wk[w].pc \in {"idle", "INGEST"}

\* C9: on a step exception other than EmbedStepFailed the handler adds one
\* to attempts and records the error; with the new attempts < MAX_ATTEMPTS
\* the job becomes queued and the execution requests exactly one requeue,
\* otherwise the job becomes failed and the execution requests none.
C9_RetryPolicy ==
    /\ [][/\ \A w \in Workers :
              (Handled(w) /\ wk[w].exc.cls # "EmbedStepFailed") =>
                  /\ job'.attempts = job.attempts + 1
                  /\ job'.error = wk[w].exc.msg
                  /\ queue' = queue
                  /\ IF job'.attempts < 3
                     THEN /\ job'.status = "queued"
                          /\ wk'[w].pc = "RETRY"
                     ELSE /\ job'.status = "failed"
                          /\ wk'[w].pc = "idle"
                          /\ last_ret' = "failed"
          /\ \A w \in Workers :
              (wk[w].pc = "RETRY" /\ wk'[w] # wk[w]) =>
                  /\ wk'[w].pc = "idle"
                  /\ queue' \in {queue,
                                 [queue EXCEPT ![wk[w].retries + 1] = @ + 1]}
          /\ (QueueLen(queue') > QueueLen(queue) /\ gw' = gw
                 /\ redelivered' = redelivered) =>
                  \E w \in Workers : wk[w].pc = "RETRY" /\ wk'[w].pc = "idle"]_vars
    /\ [](\A w \in Workers : wk[w].pc = "RETRY" =>
             /\ wk[w].exc.cls \notin {"none", "EmbedStepFailed"}
             /\ job.attempts >= 1)

C9_Witness ==
    /\ job.status = "queued"
    /\ job.attempts = 2
    /\ queue[2] = 1
    /\ last_ret = "retry"

\* C10: when EMBED fails with EmbedStepFailed the job becomes failed at once,
\* whatever attempts is, attempts grows by one and no requeue is requested.
C10_EmbedFailsJob ==
    /\ [][\A w \in Workers :
            (Handled(w) /\ wk[w].exc.cls = "EmbedStepFailed") =>
                /\ job'.status = "failed"
                /\ job'.attempts = job.attempts + 1
                /\ wk'[w].pc = "idle"
                /\ last_ret' = "failed"
                /\ queue' = queue]_vars
    /\ [](\A w \in Workers :
            wk[w].exc.cls = "EmbedStepFailed" => wk[w].pc = "HANDLER")

C10_Witness ==
    /\ job.status = "failed"
    /\ job.attempts = 1
    /\ job.progress = 75
    /\ job.error = "embed step failed after retries"
    /\ last_ret = "failed"

\* ------------------------------------------------- embedding retry loops

\* this step is a request of the call cl
ClientRequested == cl.pc = "loop" /\ cl'.attempt = cl.attempt + 1

\* the failures the retry policy of the embedding client names as
\* retryable: HTTP 429, 500, 502, 503, 504, a network error or timeout,
\* a response that is not JSON
PolicyRetryable(resp) ==
    \/ resp.status \in {429, 500, 502, 503, 504}
    \/ resp.status = 0
    \/ (resp.status = 200 /\ resp.body = "malformed")

\* HTTP 401 or any other 4xx except 429
PolicyFatal(resp) ==
    400 <= resp.status /\ resp.status < 500 /\ resp.status # 429

\* C11: in openai_utils.embed and in _openai_embed, a retryable failure
\* (HTTP 429, 500, 502, 503, 504, network error, timeout, malformed JSON)
\* of attempt k < N leaves the loop running, so that attempt k + 1
\* follows; an HTTP 401 or other 4xx except 429 ends the call with an
\* exception after exactly that request, without a sleep.
C11_ClientRetryPolicy ==
    [][(ClientRequested /\ cl.impl \in {"embed", "_openai_embed"}) =>
        /\ (PolicyRetryable(cl'.resp) /\ cl'.attempt < cl.max_retries)
              => cl'.pc = "loop"
        /\ PolicyFatal(cl'.resp)
              => (cl'.pc = "raised" /\ cl'.slept = cl.slept)]_vars

\* C14: the sleep after failed attempt k (k >= 1) of an embedding retry
\* loop lies in [0, min(cap, base * 2^(k-1))]: it is never negative and
\* never longer than the cap, and its upper bound doubles from one
\* attempt to the next until it reaches the cap.
C14_BackoffBound ==
    /\ []((cl.pc = "loop" /\ cl.slept > 0) =>
            /\ cl.attempt >= 1
            /\ 0 <= cl.sleep_sec
            /\ cl.sleep_sec <= cl.capped
            /\ cl.capped = Min(cl.backoff_cap,
                               cl.backoff_base * 2 ^ (cl.attempt - 1))
            /\ cl.sleep_sec <= cl.backoff_cap)
    /\ [][(cl.slept > 0 /\ cl'.slept = cl.slept + 1) =>
            cl'.capped = Min(cl.backoff_cap, 2 * cl.capped)]_vars

\* a sleep of the full cap, at an attempt whose exponential bound is
\* above the cap
C14_Witness ==
    /\ cl.pc = "loop"
    /\ cl.slept >= 2
    /\ cl.backoff_base * 2 ^ (cl.attempt - 1) > cl.backoff_cap
    /\ cl.sleep_sec = cl.backoff_cap

\* the last request of the call failed with an error of a class that the
\* retry policy names as retryable; _run_embed does not parse the body
FailedRetryably(c) ==
    /\ PolicyRetryable(c.resp)
    /\ c.impl = "_run_embed" => c.resp.status # 200

\* the messages of the errors raised when the attempts are used up
ExhaustionDetails ==
    {"OpenAI embedding failed after attempt(s)",
     "OpenAI embedding unavailable after attempt(s)",
     "OpenAI embedding returned invalid JSON after attempt(s)",
     "embed step failed after retries"}

\* C15: every embedding retry loop makes at most N requests (N the
\* configured number of attempts); when all N fail with retryable errors
\* it raises the exhaustion error, which carries the number of attempts
\* and the last upstream status; it never sleeps after the final attempt
\* and never returns normally without a successful response.
C15_LoopTerminates ==
    /\ cl.attempt <= cl.max_retries
    /\ (cl.pc = "loop" /\ cl.slept > 0) => cl.attempt < cl.max_retries
    /\ cl.pc \in {"returned", "raised"} => cl.slept = Max(cl.attempt - 1, 0)
    /\ cl.pc = "returned" =>
          /\ cl.resp.status = 200
          /\ cl.impl # "_run_embed" => cl.resp.body = "json"
    /\ (/\ cl.pc = "raised"
        /\ cl.max_retries >= 1
        /\ cl.attempt = cl.max_retries
        /\ FailedRetryably(cl))
       => /\ cl.err.detail \in ExhaustionDetails
          /\ cl.err.attempts = cl.max_retries
          /\ cl.err.last_status = (IF cl.resp.status >= 400
                                   THEN cl.resp.status ELSE 0)

\* ------------------------------------------------- the EMBED step

\* the failures the embedding retry policy names as retryable, as
\* _run_embed sees them: an HTTP status, or 0 for a network error / timeout
PolicyRetryableStatus == {429, 500, 502, 503, 504, 0}

\* C12: in _run_embed every retryable class of the embedding retry
\* policy (HTTP 429, 500, 502, 503, 504, network errors, timeouts) is
\* retried inside the step until the budget is spent: the step raises
\* EmbedStepFailed, which marks the job failed, for such an upstream
\* failure only after PIPELINE_EMBED_MAX_RETRIES requests.
C12_EmbedRetriesInStep ==
    (/\ cl.impl = "_run_embed"
     /\ cl.pc = "raised"
     /\ cl.resp.status \in PolicyRetryableStatus)
    => cl.attempt = PIPELINE_EMBED_MAX_RETRIES

\* the requests of the EMBED step were answered 503 but for the last,
\* which was answered 200
FailuresThenSuccess(answers) == answers \in {"first200", "only503_then_200"}

\* C13: if graph_service answers 503 to the first k - 1 requests of the
\* EMBED step and 200 to request k (k <= PIPELINE_EMBED_MAX_RETRIES), the
\* step has succeeded after exactly these k requests and the execution
\* goes on to commit completed; if it answers 401 to the first request,
\* that is the only request, the step fails with EmbedStepFailed and the
\* failure handler commits failed, puts no task on the queue and the
\* task ends.
C13_RetryBudget ==
    /\ [](\A w \in Workers :
            /\ FailuresThenSuccess(wk[w].answers)
                  => (wk[w].pc = "COMPLETE" /\ wk[w].done = STEPS)
            /\ wk[w].answers = "first401"
                  => (wk[w].pc = "HANDLER" /\ wk[w].exc.cls = "EmbedStepFailed"))
    /\ [][\A w \in Workers :
            /\ (~FailuresThenSuccess(wk[w].answers)
                /\ FailuresThenSuccess(wk'[w].answers))
                  => /\ wk[w].pc = "EMBED"
                     /\ wk[w].attempt + 1 <= PIPELINE_EMBED_MAX_RETRIES
                     /\ wk[w].attempt = 0 <=> wk'[w].answers = "first200"
            /\ (FailuresThenSuccess(wk[w].answers) /\ wk'[w] # wk[w])
                  => job'.status = "completed"
            /\ (wk[w].answers # "first401" /\ wk'[w].answers = "first401")
                  => (wk[w].pc = "EMBED" /\ wk[w].attempt = 0)
            /\ (wk[w].answers = "first401" /\ wk'[w] # wk[w])
                  => /\ job'.status = "failed"
                     /\ queue' = queue
                     /\ wk'[w].pc = "idle"]_vars

\* the step has succeeded after at least one 503
C13_Witness ==
    \E w \in Workers :
        /\ wk[w].pc = "COMPLETE"
        /\ wk[w].answers = "only503_then_200"

\* C21: an archive violation raised by the INGEST step (unsafe path,
\* symlink, archive too large, too many files) is fatal to the job: the
\* failure handler of the execution commits failed with the violation
\* text as the error, puts no task on the queue and the task ends.
C21_ArchiveViolationFatal ==
    [][\A w \in Workers :
          (/\ Handled(w)
           /\ wk[w].exc.cls = "RuntimeError"
           /\ wk[w].exc.msg \in ArchiveViolations)
             => /\ job'.status = "failed"
                /\ job'.error = wk[w].exc.msg
                /\ queue' = queue
                /\ wk'[w].pc = "idle"]_vars

\* C28: when the ingested archive holds no file of a supported language
\* (only a README, say), no execution gets past PARSE and the job record
\* never advances past PARSE: it never shows LOAD_GRAPH or EMBED as
\* current_step and never becomes completed.
C28_EmptyRepoStopsAtParse ==
    archive = "no_sources" =>
        /\ job.current_step \in {"INGEST", "PARSE"}
        /\ job.status # "completed"
        /\ \A w \in Workers : wk[w].pc \notin {"LOAD_GRAPH", "EMBED", "COMPLETE"}

\* ------------------------------------------------- archive extraction

\* some member resolves outside the destination or is a symbolic link
UnsafeArchive(zip) ==
    \E i \in 1..Len(zip.infos) :
        \/ ~IsWithinDirectory(zip.infos[i].name)
        \/ zip.infos[i].kind = "symlink"

\* number and total file_size of the members that are not directories
RECURSIVE FileCount(_, _)
FileCount(infos, i) ==
    IF i > Len(infos) THEN 0
    ELSE (IF infos[i].kind = "dir" THEN 0 ELSE 1) + FileCount(infos, i + 1)

RECURSIVE TotalSize(_, _)
TotalSize(infos, i) ==
    IF i > Len(infos) THEN 0
    ELSE (IF infos[i].kind = "dir" THEN 0 ELSE infos[i].file_size)
         + TotalSize(infos, i + 1)

WithinLimits(zip) ==
    /\ zip.size <= MAX_ZIP_MB * MB
    /\ FileCount(zip.infos, 1) <= MAX_FILES
    /\ TotalSize(zip.infos, 1) <= MAX_TOTAL_UNZIPPED_MB * MB

\* the call under way, or the last one, has found the archive valid
Validated == ing.pc = "extract" \/ (ing.pc = "returned" /\ ~ing.skipped)

\* the last call has refused the archive in its first pass
Rejected == ing.pc = "raised" /\ ing.err \notin {"OSError", "ZIP upload not found"}

\* C16: extraction is two-pass: when any member of the archive, wherever
\* it sits, resolves outside the destination or is a symbolic link, the
\* call raises from the first pass and no member is ever materialized;
\* no file is ever written outside the destination.
C16_TwoPass ==
    /\ disk.outside = {}
    /\ UnsafeArchive(zip_file) =>
          /\ ing.pc \notin {"extract", "returned"}
          /\ disk.tmp.members = {}
          /\ ~disk.repo.exists
          /\ ing.pc = "raised" => Rejected

\* the unsafe member is the last one, after a regular file
C16_Witness ==
    /\ ing.pc = "raised"
    /\ ing.err = "Unsafe ZIP member path"
    /\ Len(zip_file.infos) >= 2
    /\ zip_file.infos[1] = [name |-> <<"f">>, kind |-> "file", file_size |-> 1]
    /\ \A i \in 1..(Len(zip_file.infos) - 1) :
          IsWithinDirectory(zip_file.infos[i].name)
    /\ zip_file.infos[Len(zip_file.infos)].name = <<"..", "f">>

\* C17: after a failed extraction, whether the first pass refused the
\* archive or a write of the second pass failed, neither repos/<repo_id>
\* nor the temporary directory exists and _ingest_zip has raised the
\* error.
C17_FailedExtractionCleansUp ==
    ing.pc = "raised" =>
        /\ ~disk.repo.exists
        /\ ~disk.tmp.exists
        /\ ing.err # None

\* a write of the second pass failed after a member had been written
C17_Witness ==
    /\ ing.pc = "raised"
    /\ ing.err = "OSError"
    /\ ing.i >= 2
    /\ ~disk.tmp.exists

\* C18: an archive is refused when its size exceeds MAX_ZIP_MB MiB, when
\* it has more than MAX_FILES members that are not directories, or when
\* their file sizes add up to more than MAX_TOTAL_UNZIPPED_MB MiB; an
\* archive with safe members that is at or below each limit is accepted;
\* directories count toward neither the number of files nor the size.
C18_ArchiveLimits ==
    /\ Validated => WithinLimits(zip_file)
    /\ (Rejected /\ ~UnsafeArchive(zip_file)) => ~WithinLimits(zip_file)

\* an archive exactly at the three limits, with a directory, is extracted
C18_Witness ==
    /\ ing.pc = "returned"
    /\ disk.repo.exists
    /\ zip_file.size = MAX_ZIP_MB * MB
    /\ FileCount(zip_file.infos, 1) = MAX_FILES
    /\ TotalSize(zip_file.infos, 1) = MAX_TOTAL_UNZIPPED_MB * MB
    /\ \E i \in 1..Len(zip_file.infos) : zip_file.infos[i].kind = "dir"

\* C19: whenever repos/<repo_id> exists it holds every member of an
\* archive that passed validation; members are written under the
\* temporary directory only, which becomes repos/<repo_id> by the rename
\* after the last member, also when a call died and a later one
\* extracted the archive.
C19_AtomicPublish ==
    /\ [](disk.repo.exists =>
            /\ ~UnsafeArchive(zip_file)
            /\ WithinLimits(zip_file)
            /\ disk.repo.members = 1..Len(zip_file.infos))
    /\ [][disk'.repo # disk.repo =>
            /\ ~disk.repo.exists
            /\ disk.tmp.members = 1..Len(zip_file.infos)
            /\ disk'.repo = disk.tmp
            /\ ~disk'.tmp.exists]_vars

\* the repository was published by a call that followed a crash
C19_Witness ==
    /\ disk.repo.exists
    /\ ing.crashes >= 1
    /\ ing.runs >= 2
    /\ Len(zip_file.infos) >= 2

\* C20: a call of _ingest_zip that finds repos/<repo_id> returns
\* normally at once: it extracts nothing, does not read the upload and
\* leaves the disk as it is, so that a job claimed again after a later
\* step failed does not extract or alter the repository.
C20_IngestIdempotent ==
    [][(disk.repo.exists /\ ing'.runs = ing.runs + 1) =>
        /\ disk' = disk
        /\ ing'.opened = ing.opened
        /\ ing'.pc = "returned"
        /\ ing'.skipped]_vars

\* a second call returned at once
C20_Witness ==
    /\ ing.pc = "returned"
    /\ ing.skipped
    /\ ing.runs >= 2
    /\ ing.opened = 1
    /\ disk.repo.exists

\* ------------------------------------------------- facts extraction

\* build_graph_facts has returned a document
Returned == pg.pc \in {"built", "rebuilt"}

DocIds == {pg.doc.nodes[i].id : i \in 1..Len(pg.doc.nodes)}
DocEdges == {pg.doc.edges[i] : i \in 1..Len(pg.doc.edges)}
DocNodes == {pg.doc.nodes[i] : i \in 1..Len(pg.doc.nodes)}

\* C22: in every facts document produced by the extractor, both endpoints
\* of every edge (contains, imports, calls) are ids of nodes of the same
\* document.
C22_EdgeEndpointsPresent ==
    Returned => \A e \in DocEdges : e.source \in DocIds /\ e.target \in DocIds

\* a document with an edge of each of the three types
C22_Witness ==
    /\ Returned
    /\ \A type \in {"contains", "imports", "calls"} :
          \E e \in DocEdges : e.type = type

\* the symbol that enters the id of a node
SymbolOf(node) == IF node.type = "file" THEN node.path ELSE node.name

\* C23: every node id is the digest of "repo_id|path|symbol|kind", no
\* two nodes of a facts document share an id, the dict of build_graph_facts
\* never holds an id twice (a definition or import whose id is present
\* adds no node), and no edge triple appears twice in the document.
C23_StableUniqueIds ==
    /\ Cardinality(Ids(pg.nodes_by_id)) = Len(pg.nodes_by_id)
    /\ Returned =>
         /\ \A node \in DocNodes :
               node.id = StableNodeId(pg.doc.repo_id, node.path, SymbolOf(node),
                                      node.type)
         /\ \A i, j \in 1..Len(pg.doc.nodes) :
               pg.doc.nodes[i].id = pg.doc.nodes[j].id => i = j
         /\ \A i, j \in 1..Len(pg.doc.edges) :
               pg.doc.edges[i] = pg.doc.edges[j] => i = j

\* the positions of the import nodes of a file
Imports(f) == {i \in 1..Len(repo[f]) : repo[f][i].type = "import_statement"}

\* one source file imports a module twice and the other imports it too:
\* the document holds one node for the module and one imports edge from
\* each file
C23_Witness ==
    /\ Returned
    /\ {AppPy, PkgAppPy} \subseteq DOMAIN repo
    /\ Cardinality(Imports(AppPy)) = 2
    /\ Cardinality(Imports(PkgAppPy)) = 1
    /\ Cardinality({node \in DocNodes : node.type = "module"}) = 1
    /\ Cardinality({e \in DocEdges : e.type = "imports"}) = 2

\* C24: extraction is deterministic: the nodes of a document are in the
\* order of their ids, its edges in the order of (source, target, type),
\* and a second call for the same repo_id and the same directory contents
\* returns the document of the first, whatever the order in which the
\* walk of the directory comes upon the files.
C24_Deterministic ==
    Returned =>
        /\ \A i \in 1..Len(pg.doc.nodes) - 1 :
              pg.doc.nodes[i].id < pg.doc.nodes[i + 1].id
        /\ \A i \in 1..Len(pg.doc.edges) - 1 :
              LET e == pg.doc.edges[i]
                  f == pg.doc.edges[i + 1]
              IN \/ e.source < f.source
                 \/ e.source = f.source /\ e.target < f.target
                 \/ /\ e.source = f.source
                    /\ e.target = f.target
                    /\ TypeRank(e.type) < TypeRank(f.type)
        /\ pg.run >= 2 => pg.doc = pg.first

\* a second call whose walk came upon the files in another order has
\* returned a document of several nodes and edges
C24_Witness ==
    /\ Returned
    /\ pg.run = 2
    /\ pg.reordered
    /\ Len(pg.doc.nodes) >= 4
    /\ Len(pg.doc.edges) >= 3

NodeOfId(id) == CHOOSE node \in DocNodes : node.id = id

\* C25: the contains edges form a forest rooted at file nodes: every
\* contains edge goes from a file node to a class or function node of
\* that file, every class or function node has exactly one incoming
\* contains edge, and no file or module node is the target of one.
C25_ContainsForest ==
    Returned =>
        /\ \A e \in DocEdges :
              e.type = "contains" =>
                 /\ e.source \in DocIds /\ e.target \in DocIds
                 /\ NodeOfId(e.source).type = "file"
                 /\ NodeOfId(e.target).type \in {"class", "function"}
                 /\ NodeOfId(e.target).path = NodeOfId(e.source).path
        /\ \A node \in DocNodes :
              node.type \in {"class", "function"} =>
                 Cardinality({e \in DocEdges :
                                 e.type = "contains" /\ e.target = node.id}) = 1

\* a file with a definition inside a definition, and a name defined in
\* both files
C25_Witness ==
    /\ Returned
    /\ \E f \in DOMAIN repo : \E i \in 1..Len(repo[f]) :
          repo[f][i].type \in DefinitionTypes /\ repo[f][i].parent # 0
    /\ Cardinality({e \in DocEdges : e.type = "contains"}) = 3
    /\ Cardinality({e.source : e \in {d \in DocEdges : d.type = "contains"}}) = 2

\* the id of the file node of a source file, of the definition at a
\* position of its tree and of the nearest definition that encloses a
\* position, the file node when there is none
FileNodeId(f) == StableNodeId(RepoId, RelativePosix(f), RelativePosix(f), "file")
DefinitionId(f, j) ==
    StableNodeId(RepoId, RelativePosix(f), repo[f][j].name, GraphType(repo[f][j].type))
EnclosingId(f, i) ==
    IF repo[f][i].parent = 0 THEN FileNodeId(f) ELSE DefinitionId(f, repo[f][i].parent)

\* the ids of the classes and functions of a name that a file defines
Callees(f, name) ==
    {DefinitionId(f, j) :
        j \in {k \in 1..Len(repo[f]) : /\ repo[f][k].type \in DefinitionTypes
                                       /\ repo[f][k].name = name}}

CallNodes(f) == {i \in 1..Len(repo[f]) : repo[f][i].type = "call"}

\* C26: for every call whose callee name is defined as a class or
\* function anywhere in the same file, before or after the call, the
\* document holds a calls edge from the nearest enclosing definition (the
\* file node if there is none) to the callee, a call of a definition from
\* inside itself apart; every calls edge of the document comes from such
\* a call, so that a call of a name the file does not define gives none.
C26_CallsResolved ==
    Returned =>
        /\ \A f \in Range(pg.files) : \A i \in CallNodes(f) :
              (/\ Callees(f, repo[f][i].name) # {}
               /\ EnclosingId(f, i) \notin Callees(f, repo[f][i].name))
                 => \E e \in DocEdges :
                       /\ e.type = "calls"
                       /\ e.source = EnclosingId(f, i)
                       /\ e.target \in Callees(f, repo[f][i].name)
        /\ \A e \in DocEdges :
              e.type = "calls" =>
                 \E f \in Range(pg.files) : \E i \in CallNodes(f) :
                    /\ e.source = EnclosingId(f, i)
                    /\ e.target \in Callees(f, repo[f][i].name)

\* the directory names the discovery is said to prune
PrunedDirs == PG_IGNORED_DIRS \cup {".venv"}

\* C27: file discovery never returns a file that lies under an excluded
\* directory at any depth (.git, dependency caches, build outputs,
\* __pycache__, virtual environments such as .venv), nor a file with an
\* unknown extension.
C27_DiscoveryPrunes ==
    \A i \in 1..Len(pg.files) :
        /\ \A j \in 1..Len(pg.files[i].dir) : pg.files[i].dir[j] \notin PrunedDirs
        /\ ExtToLang(Lower(pg.files[i].suffix)) # None

\* ------------------------------------------------------------- retrieve

\* the ids of a list of hits that the merge can use
UsableIds(hits) == {hits[i].id : i \in 1..Len(hits)} \ {""}

\* the highest score of an id in a list of hits, NoScore without one
BestScore(hits, id) ==
    LET scores == {hits[i].score : i \in {j \in 1..Len(hits) : hits[j].id = id}}
    IN IF scores = {} THEN NoScore
       ELSE CHOOSE score \in scores : \A other \in scores : other <= score

\* the maximum of the scores of an id that are present
BestOfBoth(id) ==
    LET k == BestScore(rt.keyword_hits, id)
        v == BestScore(rt.semantic_hits, id)
    IN IF k >= v THEN k ELSE v

\* a list of hits in the order of its scores
IsRanked(hits) ==
    \A i \in 1..Len(hits) - 1 : hits[i].score >= hits[i + 1].score

SnippetIds == [i \in 1..Len(rt.snippets) |-> rt.snippets[i].node_id]

\* C29: a pack that retrieve returns from the keyword and semantic hits
\* holds each id once, with its highest keyword score, its highest
\* semantic score and the maximum of the two that are present as its
\* score, in the order of non-increasing score; it holds the top_k best
\* ids or all of them; an id that is first in both lists, each in the
\* order of its scores, is first; keyword [a(0.9), b(0.6)] with vector
\* [a(0.8), c(0.7)] and top_k = 2 gives [a, c]
C29_HybridMerge ==
    (rt.pc = "returned" /\ ~rt.fallback_called) =>
        LET merged == UsableIds(rt.keyword_hits) \cup UsableIds(rt.semantic_hits)
            kept == {SnippetIds[i] : i \in 1..Len(SnippetIds)}
        IN /\ kept \subseteq merged
           /\ \A i, j \in 1..Len(rt.snippets) :
                 SnippetIds[i] = SnippetIds[j] => i = j
           /\ \A i \in 1..Len(rt.snippets) :
                 /\ rt.snippets[i].keyword_score = BestScore(rt.keyword_hits, SnippetIds[i])
                 /\ rt.snippets[i].semantic_score = BestScore(rt.semantic_hits, SnippetIds[i])
                 /\ rt.snippets[i].score = BestOfBoth(SnippetIds[i])
           /\ IsRanked(rt.snippets)
           /\ Len(rt.snippets) = Min(rt.top_k, Cardinality(merged))
           /\ \A id \in merged \ kept : \A i \in 1..Len(rt.snippets) :
                 BestOfBoth(id) <= rt.snippets[i].score
           /\ (/\ rt.keyword_hits # <<>>
               /\ rt.semantic_hits # <<>>
               /\ IsRanked(rt.keyword_hits)
               /\ IsRanked(rt.semantic_hits)
               /\ rt.keyword_hits[1].id = rt.semantic_hits[1].id
               /\ rt.keyword_hits[1].id # "")
                    => SnippetIds[1] = rt.keyword_hits[1].id
           /\ (/\ rt.keyword_hits = <<Hit("a", 9), Hit("b", 6)>>
               /\ rt.semantic_hits = <<Hit("a", 8), Hit("c", 7)>>
               /\ rt.top_k = 2)
                    => SnippetIds = <<"a", "c">>

\* the pack of the example has been returned
C29_Witness ==
    /\ rt.pc = "returned"
    /\ ~rt.fallback_called
    /\ rt.keyword_hits = <<Hit("a", 9), Hit("b", 6)>>
    /\ rt.semantic_hits = <<Hit("a", 8), Hit("c", 7)>>
    /\ rt.top_k = 2
    /\ SnippetIds = <<"a", "c">>

\* C30: once the keyword and semantic hits are merged, the fallback
\* search has been called exactly when no hit of the two searches has an
\* id, and a pack returned through the fallback holds at most top_k
\* snippets
C30_FallbackIffEmpty ==
    /\ rt.pc \in {"expand", "returned", "raised"} =>
          (rt.fallback_called
              <=> UsableIds(rt.keyword_hits) \cup UsableIds(rt.semantic_hits) = {})
    /\ (rt.pc = "returned" /\ rt.fallback_called) =>
          Len(rt.snippets) <= rt.top_k

\* a pack of top_k snippets cut from a longer answer of the fallback
\* search, after two searches whose hits had no id
C30_Witness ==
    /\ rt.pc = "returned"
    /\ rt.fallback_called
    /\ rt.keyword_hits # <<>>
    /\ rt.semantic = "searched"
    /\ Len(rt.snippets) = rt.top_k
    /\ \E i, j \in 1..Len(rt.snippets) : i # j /\ SnippetIds[i] = SnippetIds[j]

\* C31: a call of retrieve ends with a retrieval pack whichever of its
\* collaborator calls fails: the fulltext search, the semantic path, the
\* default fallback or the one-hop expansion; it never ends by raising
C31_GracefulDegradation == rt.pc # "raised"

\* --------------------------------------------------------------- answer

\* the snippets placed in the prompt context of the request, and their ids
Context == Take(SortedSnippets(an.pack), MAX_CONTEXT_SNIPPETS)
ContextIds == {Context[i].id : i \in 1..Len(Context)}

\* the ids of the context that the answer of the provider cites
CitedInContext ==
    {StrLower(StrStrip(an.resp.citations[i])) : i \in 1..Len(an.resp.citations)}
        \cap ContextIds

\* C32: the citations of a response are ids of snippets of the context;
\* with a provider that answers a JSON object they are the ids of the
\* context that the provider cites, or the ids of the top snippets if it
\* cites none or gives no list; without a provider they are the ids of
\* the top snippets
C32_CitationsInContext ==
    an.pc = "returned" =>
        /\ Range(an.out.citations) \subseteq ContextIds
        /\ an.resp.kind = "json_object" =>
              IF CitedInContext = {}
              THEN an.out.citations = SnippetIdsOf(Take(Context, 3))
              ELSE Range(an.out.citations) = CitedInContext
        /\ an.resp.kind = "json_object_citations_no_list" =>
              an.out.citations = SnippetIdsOf(Take(Context, 3))
        /\ ~an.called => an.out.citations = SnippetIdsOf(Take(Context, 5))

\* the provider cited an id of the context and one that is not in it,
\* and the response keeps the first alone
C32_Witness ==
    /\ an.pc = "returned"
    /\ an.resp.kind = "json_object"
    /\ "z" \in Range(an.resp.citations)
    /\ " B " \in Range(an.resp.citations)
    /\ an.out.citations = <<"b">>
    /\ Len(SortedSnippets(an.pack)) > Len(Context)

\* the answer of the provider is empty or holds a weak marker
ProviderLowConfidence ==
    /\ an.resp.kind \in {"plain", "json_object", "json_object_citations_no_list"}
    /\ \/ \A i \in 1..Len(an.resp.answer) : an.resp.answer[i] = " "
       \/ \E i \in 1..Len(an.resp.answer) : StrLower(an.resp.answer[i]) \in WeakMarkers

StartsWithSummary ==
    /\ an.out.answer # <<>>
    /\ an.out.answer[1] \in {BestEffortAnswer, NoIndexedSnippets}

\* C33: a response composed from a low-confidence answer of the provider
\* begins with the deterministic summary and has a warning; without
\* OPENAI_API_KEY the provider is not called and the response is the
\* deterministic answer with a warning
C33_LowConfidenceWarned ==
    /\ (an.pc = "returned" /\ an.called /\ ProviderLowConfidence) =>
          (StartsWithSummary /\ an.out.warning # None)
    /\ (an.pc \in {"returned", "raised"} /\ ~an.configured) =>
          /\ ~an.called
          /\ an.pc = "returned"
          /\ Len(an.out.answer) = 1
          /\ StartsWithSummary
          /\ an.out.warning # None

\* -------------------------------------------------------------- sanitizer

Sanitized == sq.pc = "sanitized"
QueryRejected == Sanitized /\ sq.err = UnsafeQuery
QueryAccepted == Sanitized /\ sq.err = None

\* a forbidden keyword stands in the query as whole words, in any case
HasForbiddenKeyword ==
    \E i \in 1..Len(sq.query) : \E keyword \in ForbiddenKeywords :
        /\ i + Len(keyword) - 1 <= Len(sq.query)
        /\ \A k \in 1..Len(keyword) : Upper(sq.query[i + k - 1]) = keyword[k]

\* the words of the query that are neither blanks nor fences
InnerWords == {i \in 1..Len(sq.query) : sq.query[i] \notin {" ", "<fence>"}}

\* the query begins, under its fences and blanks, with a read-only keyword
BeginsReadOnly ==
    /\ InnerWords # {}
    /\ \E i \in InnerWords :
        /\ \A j \in InnerWords : i <= j
        /\ Upper(sq.query[i]) \in ReadOnlyKeywords

\* the query has neither a fence nor blanks around it
IsBare ==
    /\ sq.query # <<>>
    /\ sq.query[1] \notin {" ", "<fence>"}
    /\ sq.query[Len(sq.query)] \notin {" ", "<fence>"}

Settled == job.status \in {"completed", "failed"}

\* C35: every job that has been enqueued eventually reaches status completed
\* or failed, also when a worker stops between two step transactions or
\* inside one.
C35_EventuallySettled == (QueueLen(queue) > 0) ~> Settled


\* ------------------------------------------------- engine: concurrency

\* worker w holds a claimed job and is at a step or at the completion
InSteps(w) == wk[w].pc \in {"INGEST", "PARSE", "LOAD_GRAPH", "EMBED", "COMPLETE"}

ClaimPassed == job.status # "running" /\ job'.status = "running"

\* C37: attempts never exceeds MAX_ATTEMPTS, and a job does not pass the
\* claim more than MAX_ATTEMPTS times: every execution that fails adds one
\* to attempts, so a job whose attempts have reached MAX_ATTEMPTS does not
\* pass the claim again.
C37_BoundedRetries ==
    [][/\ job'.attempts <= MAX_ATTEMPTS
       /\ ClaimPassed => job.attempts < MAX_ATTEMPTS]_vars


\* --------------------------------------------------- engine: progress

\* C38: the progress of a job never decreases from one committed state to
\* the next, also across a step failure, the requeue, the claim that
\* follows and the steps that run again.
C38_ProgressMonotone == [][job'.progress >= job.progress]_vars


\* ----------------------------------------------------- engine: rollback

\* this step is a step transaction of worker w that raised
StepRaised(w) ==
    /\ wk[w].pc \in {"INGEST", "PARSE", "LOAD_GRAPH", "EMBED"}
    /\ wk'[w].pc = "HANDLER"

\* C39: a step that raises leaves the committed record as it was, with the
\* current_step and the progress of the last transaction that committed,
\* and the failure handler changes only attempts, error and status.
C39_RollbackFrame ==
    [][\A w \in Workers :
         /\ StepRaised(w) => job' = job
         /\ Handled(w) =>
              job' = [job EXCEPT !.attempts = job'.attempts,
                                 !.error = job'.error,
                                 !.status = job'.status]]_vars

\* LOAD_GRAPH raised after INGEST and PARSE committed, and the handler ran
C39_Witness ==
    /\ job.status = "queued"
    /\ job.attempts = 1
    /\ job.error = "graph_service unreachable"
    /\ job.current_step = "PARSE"
    /\ job.progress = 50


\* ------------------------------------------------------ gateway: ingest

\* this step is the end of ingest_zip: the call of enqueue_pipeline_job
\* and what follows it
RequestEnds == gw = "upload_saved" /\ gw' = "done"

\* C40: when the task is enqueued the job record is committed as it was
\* created (queued, progress 0, attempts 0, current_step INGEST, no error)
\* and the archive is written; a worker that is delivered a task finds the
\* job row and the archive; and every ingest request that created a job
\* record enqueues a task for it.
C40_RecordAndArchiveBeforeTask ==
    [][/\ RequestEnds =>
            /\ job = NewJob
            /\ upload
            /\ QueueLen(queue') = QueueLen(queue) + 1
       /\ TaskDelivered => (job.exists /\ upload)]_vars

====
